---- MODULE Spec2Model ----
(***************************************************************************)
(* Model of the spreadsheet ingestion pipeline: Router.identifySource      *)
(* (router.js), Processor.processFile / normalizeData / classifyData /     *)
(* extractKRW / formatDate (processor.js).                                 *)
(*                                                                         *)
(* Text is a sequence of one-character strings.  Hangul syllables are      *)
(* written romanised, one token per syllable (e.g. "geum","aek" for the    *)
(* two syllables of the word for "amount"); the won sign is the token      *)
(* "WON".  A cell value is Nil (null / undefined), a number Num(m, e)      *)
(* standing for m * 10^(-e), or a string Str(s).                           *)
(***************************************************************************)
EXTENDS Integers, Sequences, FiniteSets, TLC

VARIABLES definitions,  \* Router.definitions
          rules,        \* window.CLASSIFICATION_RULES
          env,          \* host environment: time zone, Date.parse, today
          file,         \* the File handed to processFile, as XLSX.read parses it
          pc,           \* position of the operation under way
          sourceInfo,   \* result of Router.identifySource
          promise,      \* the promise processFile returned
          calls,        \* stages invoked by the load handler, in order
          arg,          \* argument of the function under study
          ret           \* its result

vars == <<definitions, rules, env, file, pc, sourceInfo, promise, calls, arg, ret>>

-----------------------------------------------------------------------------
(* Values *)

Nil == [t |-> "nil"]
Str(s) == [t |-> "str", s |-> s]

RECURSIVE Pow10(_)
Pow10(e) == IF e = 0 THEN 1 ELSE 10 * Pow10(e - 1)

RECURSIVE Norm(_, _)
\* canonical form of m * 10^(-e): no trailing zero in the fraction
Norm(m, e) == IF e > 0 /\ m % 10 = 0 THEN Norm(m \div 10, e - 1)
              ELSE [t |-> "num", m |-> m, e |-> e]

Num(m, e) == Norm(m, e)
IntNum(n) == Num(n, 0)

\* JavaScript truthiness of a cell value
Truthy(v) == CASE v.t = "nil" -> FALSE
               [] v.t = "num" -> v.m # 0
               [] v.t = "str" -> v.s # <<>>
               [] OTHER -> TRUE

WS == {" ", "\t"}
DIGITS == <<"0", "1", "2", "3", "4", "5", "6", "7", "8", "9">>
DigitSet == {DIGITS[k] : k \in 1..10}
DigitVal(c) == (CHOOSE k \in 1..10 : DIGITS[k] = c) - 1

RECURSIVE NatToStr(_)
NatToStr(n) == IF n < 10 THEN <<DIGITS[n + 1]>>
               ELSE NatToStr(n \div 10) \o <<DIGITS[(n % 10) + 1]>>

RECURSIVE PadLeft(_, _)
\* String.prototype.padStart(w, '0')
PadLeft(s, w) == IF Len(s) >= w THEN s ELSE PadLeft(<<"0">> \o s, w)

Abs(n) == IF n < 0 THEN -n ELSE n

\* String(number)
NumToString(v) ==
    LET a == Abs(v.m)
        p == Pow10(v.e)
    IN  (IF v.m < 0 THEN <<"-">> ELSE <<>>)
        \o NatToStr(a \div p)
        \o (IF v.e > 0 THEN <<".">> \o PadLeft(NatToStr(a % p), v.e) ELSE <<>>)

\* String(value) for a truthy cell value
JsString(v) == IF v.t = "str" THEN v.s ELSE NumToString(v)

\* s.replace(/\s+/g, '')
StripWs(s) == SelectSeq(s, LAMBDA c : c \notin WS)

\* s.trim()
Trim(s) ==
    LET ix == {i \in 1..Len(s) : s[i] \notin WS}
    IN  IF ix = {} THEN <<>>
        ELSE SubSeq(s, CHOOSE i \in ix : \A j \in ix : i <= j,
                       CHOOSE i \in ix : \A j \in ix : i >= j)

\* hay.includes(needle)
Includes(hay, needle) ==
    \E i \in 0..(Len(hay) - Len(needle)) : SubSeq(hay, i + 1, i + Len(needle)) = needle

Min(a, b) == IF a < b THEN a ELSE b

-----------------------------------------------------------------------------
(* router.js: the source catalog *)

W_iyongil == <<"i", "yong", "il">>
W_iyonghasingot == <<"i", "yong", "ha", "sin", "got">>
W_iyonggeumaek == <<"i", "yong", "geum", "aek">>
W_iyongsigan == <<"i", "yong", "si", "gan">>
W_iyonggeumaekwon == <<"i", "yong", "geum", "aek", "(", "won", ")">>
W_seunginilsi == <<"seung", "in", "il", "si">>
W_gamaengjeommyeong == <<"ga", "maeng", "jeom", "myeong">>
W_seungingeumaek == <<"seung", "in", "geum", "aek">>
W_georaegeumaek == <<"geo", "rae", "geum", "aek">>
W_georaeil == <<"geo", "rae", "il">>
W_geumaek == <<"geum", "aek">>
W_kadeubeonho == <<"ka", "deu", "beon", "ho">>
W_seunginilja == <<"seung", "in", "il", "ja">>
W_seunginsigak == <<"seung", "in", "si", "gak">>
W_seungingeumaekwon == <<"seung", "in", "geum", "aek", "(", "won", ")">>
W_georaeilsi == <<"geo", "rae", "il", "si">>
W_jeokyo == <<"jeok", "yo">>
W_chajeusingeumaek == <<"chaj", "eu", "sin", "geum", "aek">>
W_matgisingeumaek == <<"mat", "gi", "sin", "geum", "aek">>
W_georaesigan == <<"geo", "rae", "si", "gan">>
W_iyongilsi == <<"i", "yong", "il", "si">>
W_iyongkadeu == <<"i", "yong", "ka", "deu">>

\* a mapping entry the definition does not have reads as undefined
Mapping(date, time, desc, amount, alt) ==
    [date |-> date, time |-> time, raw_description |-> desc,
     amount |-> amount, amount_alt |-> alt]

SOURCE_DEFINITIONS == <<
    [type |-> "kb_card", name |-> <<"K", "B", "guk", "min", "ka", "deu">>,
     signatures |-> <<W_iyongil, W_iyonghasingot, W_iyonggeumaek>>,
     mapping |-> Mapping(Str(W_iyongil), Str(W_iyongsigan), Str(W_iyonghasingot),
                         Str(W_iyonggeumaekwon), Str(W_iyonggeumaek))],
    [type |-> "bc_card", name |-> <<"bi", "ssi", "ka", "deu">>,
     signatures |-> <<W_seunginilsi, W_gamaengjeommyeong, W_seungingeumaek>>,
     mapping |-> Mapping(Str(W_seunginilsi), Nil, Str(W_gamaengjeommyeong),
                         Str(W_seungingeumaek), Str(W_georaegeumaek))],
    [type |-> "shinhan_card", name |-> <<"sin", "han", "ka", "deu">>,
     signatures |-> <<W_georaeil, W_gamaengjeommyeong, W_geumaek>>,
     mapping |-> Mapping(Str(W_georaeil), Nil, Str(W_gamaengjeommyeong),
                         Str(W_geumaek), Nil)],
    [type |-> "samsung_card", name |-> <<"sam", "seong", "ka", "deu">>,
     signatures |-> <<W_kadeubeonho, W_seunginilja, W_seunginsigak, W_seungingeumaekwon>>,
     mapping |-> Mapping(Str(W_seunginilja), Str(W_seunginsigak), Str(W_gamaengjeommyeong),
                         Str(W_seungingeumaekwon), Nil)],
    [type |-> "citi_account", name |-> <<"ssi", "ti", "gye", "jwa">>,
     signatures |-> <<W_georaeilsi, W_jeokyo, W_chajeusingeumaek, W_matgisingeumaek>>,
     mapping |-> Mapping(Str(W_georaeilsi), Str(W_georaesigan), Str(W_jeokyo),
                         Str(W_chajeusingeumaek), Str(W_matgisingeumaek))],
    [type |-> "citi_card", name |-> <<"ssi", "ti", "ka", "deu">>,
     signatures |-> <<W_iyongilsi, W_iyongkadeu, W_gamaengjeommyeong, W_georaegeumaek>>,
     mapping |-> Mapping(Str(W_iyongilsi), Nil, Str(W_gamaengjeommyeong),
                         Str(W_georaegeumaek), Nil)] >>

MAX_SEARCH_ROWS == 500
DEBUG_COLS == 10
EMPTY == <<"E", "M", "P", "T", "Y">>

-----------------------------------------------------------------------------
(* router.js: Router.identifySource *)

\* XLSX.utils.sheet_to_json(workbook.Sheets[name], {header: 1}); a missing
\* sheet yields no rows
SheetToJson(workbook, name) ==
    IF name \in DOMAIN workbook.Sheets THEN workbook.Sheets[name] ELSE <<>>

\* jsonData[i].map(c => c ? String(c).trim() : '')
TrimmedRow(raw) == [k \in 1..Len(raw) |-> IF Truthy(raw[k]) THEN Trim(JsString(raw[k])) ELSE <<>>]

\* mutant: the cells are matched with their whitespace left in
CleanRow_KeepWs(row) == row

\* row.map(r => r.replace(/\s+/g, ''))
CleanRow(row) == [k \in 1..Len(row) |-> StripWs(row[k])]

\* signatures.every(sig => cleanRow.some(cell => cell.includes(cleanSig)))
IsMatch(def, cleanRow) ==
    \A s \in 1..Len(def.signatures) :
        \E c \in 1..Len(cleanRow) : Includes(cleanRow[c], StripWs(def.signatures[s]))

\* mutant: the malformed-row guard is missing
Accepts_NoLengthGuard(def, row) ==
    \A s \in 1..Len(def.signatures) :
        \E c \in 1..Len(row) : Includes(StripWs(row[c]), StripWs(def.signatures[s]))

\* the match is taken unless the row has fewer cells than signature keywords
Accepts(def, row) == IsMatch(def, CleanRow(row)) /\ ~(Len(row) < Len(def.signatures))

\* mutant: the last accepted definition of the catalog wins
ScanDefs_LastWins(defs, row, d) ==
    LET hits == {e \in d..Len(defs) :
                    /\ \A s \in 1..Len(defs[e].signatures) :
                           \E c \in 1..Len(row) :
                               Includes(StripWs(row[c]), StripWs(defs[e].signatures[s]))
                    /\ Len(row) >= Len(defs[e].signatures)}
    IN  IF hits = {} THEN 0 ELSE CHOOSE e \in hits : \A f \in hits : f <= e

RECURSIVE ScanDefs(_, _, _)
\* for (const def of this.definitions): index of the first accepted definition, 0 if none
ScanDefs(defs, row, d) ==
    IF d > Len(defs) THEN 0
    ELSE IF Accepts(defs[d], row) THEN d
    ELSE ScanDefs(defs, row, d + 1)

\* for (let i = 0; i < Math.min(MAX_SEARCH_ROWS, jsonData.length); i++), left at
\* the first row with an accepted definition: <<i, d>> of that row, <<-1, 0>> if
\* the loop runs to its end
ScanRows(defs, jsonData) ==
    LET n == Min(MAX_SEARCH_ROWS, Len(jsonData))
        hits == {i \in 0..(n - 1) : ScanDefs(defs, TrimmedRow(jsonData[i + 1]), 1) # 0}
    IN  IF hits = {} THEN <<-1, 0>>
        ELSE LET i == CHOOSE i \in hits : \A j \in hits : i <= j
             IN  <<i, ScanDefs(defs, TrimmedRow(jsonData[i + 1]), 1)>>

RECURSIVE ScanSheets(_, _, _)
\* for (const sheetName of workbook.SheetNames): <<k, i, d>>, <<0, -1, 0>> if none
ScanSheets(defs, workbook, k) ==
    IF k > Len(workbook.SheetNames) THEN <<0, -1, 0>>
    ELSE LET jsonData == SheetToJson(workbook, workbook.SheetNames[k])
             hit == ScanRows(defs, jsonData)
         IN  IF Len(jsonData) # 0 /\ hit[2] # 0 THEN <<k, hit[1], hit[2]>>
             ELSE ScanSheets(defs, workbook, k + 1)

RECURSIVE Join(_)
\* Array.prototype.join(','): null and undefined render as ''
Join(cells) ==
    IF Len(cells) = 0 THEN <<>>
    ELSE LET h == IF cells[1].t = "nil" THEN <<>> ELSE JsString(cells[1])
         IN  IF Len(cells) = 1 THEN h ELSE h \o <<",">> \o Join(Tail(cells))

\* firstJson[0].slice(0, 10).join(',') or 'EMPTY'
DebugHeader(workbook) ==
    LET firstJson == IF Len(workbook.SheetNames) > 0
                     THEN SheetToJson(workbook, workbook.SheetNames[1]) ELSE <<>>
    IN  IF Len(firstJson) > 0
        THEN Join(SubSeq(firstJson[1], 1, Min(DEBUG_COLS, Len(firstJson[1]))))
        ELSE EMPTY

identifySource(defs, filename, workbook) ==
    LET hit == ScanSheets(defs, workbook, 1)
    IN  IF hit[1] # 0
        THEN LET sheetName == workbook.SheetNames[hit[1]]
                 jsonData == SheetToJson(workbook, sheetName)
             IN  [def |-> defs[hit[3]],
                  headerRow |-> TrimmedRow(jsonData[hit[2] + 1]),
                  headerIndex |-> hit[2],
                  sheetName |-> sheetName,
                  jsonData |-> jsonData]
        ELSE [def |-> Nil, debugHeader |-> DebugHeader(workbook)]

-----------------------------------------------------------------------------
(* Workbooks handed to Router.identifySource *)

MaxExtraCols == 1   \* extra columns placed before a header's signature columns
MaxBlankRows == 1   \* blank rows above the first content row of a shallow sheet

W_memo == <<"me", "mo">>

\* "ab" -> " a b ": surrounding and internal whitespace
Spaced(w) == <<" ">> \o <<w[1]>> \o <<" ">> \o Tail(w) \o <<"\t">>

RECURSIVE Concat(_)
Concat(ws) == IF Len(ws) = 0 THEN <<>> ELSE ws[1] \o Concat(Tail(ws))

PlainHeader(def) == [k \in 1..Len(def.signatures) |-> Str(def.signatures[k])]
SpacedHeader(def) == [k \in 1..Len(def.signatures) |-> Str(Spaced(def.signatures[k]))]
\* every keyword in one cell: fewer cells than keywords
MergedHeader(def) == <<Str(Concat(def.signatures))>>

ExtraCells == {Nil, IntNum(2025), Str(W_georaeil), Str(W_memo)}

RECURSIVE SeqsUpTo(_, _)
SeqsUpTo(S, n) ==
    IF n = 0 THEN {<<>>}
    ELSE LET shorter == SeqsUpTo(S, n - 1)
         IN  shorter \cup {<<x>> \o q : x \in S, q \in {r \in shorter : Len(r) = n - 1}}

CatalogDefs == {SOURCE_DEFINITIONS[d] : d \in 1..Len(SOURCE_DEFINITIONS)}

HeaderRows ==
    {x \o h : x \in SeqsUpTo(ExtraCells, MaxExtraCols),
              h \in UNION {{PlainHeader(def), SpacedHeader(def), MergedHeader(def)} :
                           def \in CatalogDefs}}

LongRow == [k \in 1..(DEBUG_COLS + 1) |-> IF k % 2 = 0 THEN Nil ELSE IntNum(k)]

JunkRows == {<<>>, <<Nil>>, <<Nil, Nil>>, <<Str(W_memo), IntNum(0)>>, LongRow}

Blank(n) == [k \in 1..n |-> <<>>]

RouterSheets ==
    {<<>>}
    \cup {Blank(p) \o <<r>> : p \in 0..MaxBlankRows, r \in HeaderRows \cup JunkRows}
    \cup {Blank(p) \o <<PlainHeader(def)>> :
              p \in {MAX_SEARCH_ROWS - 1, MAX_SEARCH_ROWS}, def \in CatalogDefs}
    \cup {<<r1, PlainHeader(def)>> :
              r1 \in {MergedHeader(e) : e \in CatalogDefs}
                     \cup {PlainHeader(e) : e \in CatalogDefs},
              def \in CatalogDefs}

OtherSheets == {<<>>, <<<<Str(W_memo), IntNum(0)>>>>,
                <<PlainHeader(SOURCE_DEFINITIONS[3])>>,
                <<PlainHeader(SOURCE_DEFINITIONS[6])>>}

Workbook(names, sheets) ==
    [SheetNames |-> names, Sheets |-> [n \in {names[k] : k \in 1..Len(names)} |->
        sheets[CHOOSE k \in 1..Len(names) : names[k] = n]]]

RouterWorkbooks ==
    {Workbook(<<>>, <<>>)}
    \cup {Workbook(<<"S1">>, <<s>>) : s \in RouterSheets}
    \cup {Workbook(<<"S1", "S2">>, <<s, o>>) : s \in RouterSheets, o \in OtherSheets}
    \cup {Workbook(<<"S1", "S2">>, <<o, s>>) : s \in RouterSheets, o \in OtherSheets}

\* the host: hours the local time zone is ahead of UTC, what Date.parse makes of
\* a string outside the ECMAScript date-time format, and today's local date
\* and which of the two copies of processor.js the page has loaded
DefaultEnv == [tz |-> 9, parse |-> Nil, today |-> [t |-> "date", y |-> 2026, m |-> 1, d |-> 5],
               build |-> "processor.js"]

-----------------------------------------------------------------------------
(* Specification SpecRouter: one call of Router.identifySource *)

InitRouter ==
    /\ definitions = SOURCE_DEFINITIONS
    /\ rules = Nil
    /\ env = DefaultEnv
    /\ file \in {[name |-> "a.xls", workbook |-> wb] : wb \in RouterWorkbooks}
    /\ pc = "call"
    /\ sourceInfo = Nil
    /\ promise = Nil
    /\ calls = <<>>
    /\ arg = Nil
    /\ ret = Nil

IdentifySource ==
    /\ pc = "call"
    /\ sourceInfo' = identifySource(definitions, file.name, file.workbook)
    /\ pc' = "returned"
    /\ UNCHANGED <<definitions, rules, env, file, promise, calls, arg, ret>>

NextRouter == IdentifySource

SpecRouter == InitRouter /\ [][NextRouter]_vars

-----------------------------------------------------------------------------
(* Claims about Router.identifySource, checked under SpecRouter *)

Returned == pc = "returned"
Succeeded == Returned /\ sourceInfo.def # Nil

\* every signature keyword of def, whitespace removed, lies inside some cell of
\* the row, whitespace removed
HasKeywords(def, row) ==
    \A s \in 1..Len(def.signatures) :
        \E c \in 1..Len(row) :
            Includes(SelectSeq(row[c], LAMBDA x : x \notin WS),
                     SelectSeq(def.signatures[s], LAMBDA x : x \notin WS))

\* a match the scan takes: all keywords present, at least as many cells as keywords
AcceptedMatch(def, row) == HasKeywords(def, row) /\ Len(row) >= Len(def.signatures)

SheetRows(k) == SheetToJson(file.workbook, file.workbook.SheetNames[k])

\* the row at zero-based index i of the k-th sheet, as trimmed strings
SheetRow(k, i) == TrimmedRow(SheetRows(k)[i + 1])

\* the <<sheet, row>> positions the scan may look at
SearchedPositions ==
    UNION {{<<k, i>> : i \in 0..(Min(MAX_SEARCH_ROWS, Len(SheetRows(k))) - 1)} :
           k \in 1..Len(file.workbook.SheetNames)}

Earlier(p, q) == p[1] < q[1] \/ (p[1] = q[1] /\ p[2] < q[2])

Matching(p) ==
    \E d \in 1..Len(definitions) : AcceptedMatch(definitions[d], SheetRow(p[1], p[2]))

MatchingPositions == {p \in SearchedPositions : Matching(p)}

FirstMatchingPosition ==
    LET M == MatchingPositions
    IN  CHOOSE p \in M : \A q \in M : p = q \/ Earlier(p, q)

SheetIndex == CHOOSE k \in 1..Len(file.workbook.SheetNames) :
                  file.workbook.SheetNames[k] = sourceInfo.sheetName
DefIndex == CHOOSE d \in 1..Len(definitions) : definitions[d] = sourceInfo.def

\* C1 (as stated): whenever the first row that matches anything contains all of
\* definition D's signature keywords, identifySource returns D.
C1_IdentifiedAsContainedDefinition ==
    (Returned /\ MatchingPositions # {}) =>
        LET first == FirstMatchingPosition
        IN  \A d \in 1..Len(definitions) :
                HasKeywords(definitions[d], SheetRow(first[1], first[2]))
                    => sourceInfo.def = definitions[d]

\* C1 (amended): whenever the first row that matches anything holds all of D's
\* signature keywords in at least as many cells as D has keywords, and no
\* definition before D in the catalog matches that row, identifySource returns
\* D with that sheet and row.
C1_IdentifiedAsFirstContainedDefinition ==
    (Returned /\ MatchingPositions # {}) =>
        LET first == FirstMatchingPosition
            row == SheetRow(first[1], first[2])
        IN  \A d \in 1..Len(definitions) :
                (/\ AcceptedMatch(definitions[d], row)
                 /\ \A e \in 1..(d - 1) : ~AcceptedMatch(definitions[e], row))
                    => /\ sourceInfo.def = definitions[d]
                       /\ sourceInfo.sheetName = file.workbook.SheetNames[first[1]]
                       /\ sourceInfo.headerIndex = first[2]

\* C1 witness: a header with whitespace inside its cells and an extra column is
\* identified
C1_Witness ==
    /\ Succeeded
    /\ Len(sourceInfo.headerRow) > Len(sourceInfo.def.signatures)
    /\ \E c \in 1..Len(sourceInfo.headerRow) :
           /\ \E x \in 1..Len(sourceInfo.headerRow[c]) : sourceInfo.headerRow[c][x] \in WS
           /\ \E s \in 1..Len(sourceInfo.def.signatures) :
                  Includes(StripWs(sourceInfo.headerRow[c]), sourceInfo.def.signatures[s])

\* C2: identifySource returns the first match in the order sheet, row, definition:
\* no accepted match lies in an earlier sheet or an earlier row of the searched
\* rows, nor belongs to an earlier definition on the returned row.
C2_FirstMatchInOrder ==
    Succeeded =>
        /\ AcceptedMatch(sourceInfo.def, SheetRow(SheetIndex, sourceInfo.headerIndex))
        /\ \A p \in SearchedPositions :
               Earlier(p, <<SheetIndex, sourceInfo.headerIndex>>) => ~Matching(p)
        /\ \A e \in 1..(DefIndex - 1) :
               ~AcceptedMatch(definitions[e], SheetRow(SheetIndex, sourceInfo.headerIndex))

\* C2 witness: a match in the second sheet, below the top row, on a row that a
\* later definition of the catalog matches as well
C2_Witness ==
    /\ Succeeded
    /\ SheetIndex = 2
    /\ \E e \in (DefIndex + 1)..Len(definitions) :
           AcceptedMatch(definitions[e], sourceInfo.headerRow)

FirstRowAbsent ==
    \/ Len(file.workbook.SheetNames) = 0
    \/ Len(SheetRows(1)) = 0
    \/ Len(SheetRows(1)[1]) = 0

\* C4 (as stated): when no row matches, identifySource returns def = null and a
\* populated debugHeader: the first ten cells of the first sheet's first row
\* joined, or 'EMPTY' when that data is absent (no sheet, empty first sheet,
\* empty first row).
C4_DebugHeaderPopulated ==
    (Returned /\ MatchingPositions = {}) =>
        /\ sourceInfo.def = Nil
        /\ sourceInfo.debugHeader # <<>>
        /\ sourceInfo.debugHeader =
               IF FirstRowAbsent THEN EMPTY
               ELSE Join(SubSeq(SheetRows(1)[1], 1, Min(DEBUG_COLS, Len(SheetRows(1)[1]))))

-----------------------------------------------------------------------------
(* processor.js: Processor.extractKRW *)

NaN == [t |-> "nan"]

RECURSIVE DigitsToNat(_)
DigitsToNat(ds) ==
    IF Len(ds) = 0 THEN 0
    ELSE 10 * DigitsToNat(SubSeq(ds, 1, Len(ds) - 1)) + DigitVal(ds[Len(ds)])

\* the longest prefix of s starting at position i whose characters are in S
RunFrom(s, i, S) ==
    LET stops == {j \in i..Len(s) : s[j] \notin S}
    IN  IF stops = {} THEN SubSeq(s, i, Len(s))
        ELSE SubSeq(s, i, (CHOOSE j \in stops : \A k \in stops : j <= k) - 1)

\* parseFloat(s): the longest prefix that is a decimal literal, NaN without one
ParseFloat(s0) ==
    LET s == SubSeq(s0, Len(RunFrom(s0, 1, WS)) + 1, Len(s0))
        signed == Len(s) > 0 /\ s[1] \in {"-", "+"}
        neg == signed /\ s[1] = "-"
        b == IF signed THEN 2 ELSE 1
        d1 == RunFrom(s, b, DigitSet)
        dot == b + Len(d1)
        d2 == IF dot <= Len(s) /\ s[dot] = "." THEN RunFrom(s, dot + 1, DigitSet) ELSE <<>>
    IN  IF Len(d1) = 0 /\ Len(d2) = 0 THEN NaN
        ELSE Num((IF neg THEN -1 ELSE 1) * DigitsToNat(d1 \o d2), Len(d2))

\* x || 0 for a number x
OrZero(x) == IF x = NaN \/ x.m = 0 THEN IntNum(0) ELSE x

\* str.match(/WON\s*([\d,]+)/): the captured group of the leftmost match, <<>> if none
WonMatch(str) ==
    LET group(i) == RunFrom(str, i + 1 + Len(RunFrom(str, i + 1, WS)), DigitSet \cup {","})
        hits == {i \in 1..Len(str) : str[i] = "WON" /\ Len(group(i)) > 0}
    IN  IF hits = {} THEN <<>>
        ELSE group(CHOOSE i \in hits : \A j \in hits : i <= j)

\* a match of /<br\s*\/?>/i starts at position i
BrAt(str, i) ==
    /\ i + 2 <= Len(str)
    /\ str[i] = "<" /\ str[i + 1] \in {"b", "B"} /\ str[i + 2] \in {"r", "R"}
    /\ LET j == i + 3 + Len(RunFrom(str, i + 3, WS))
       IN  \/ j <= Len(str) /\ str[j] = ">"
           \/ j + 1 <= Len(str) /\ str[j] = "/" /\ str[j + 1] = ">"

\* str.split(/<br\s*\/?>/i)[0]
BeforeBr(str) ==
    LET hits == {i \in 1..Len(str) : BrAt(str, i)}
    IN  IF hits = {} THEN str
        ELSE SubSeq(str, 1, (CHOOSE i \in hits : \A j \in hits : i <= j) - 1)

\* s.replace(/[^0-9.-]/g, '')
KeepNumeric(s) == SelectSeq(s, LAMBDA c : c \in DigitSet \cup {".", "-"})

\* mutant: the won-sign branch returns the captured text instead of a number
extractKRW_WonText(value) ==
    IF value.t = "num" THEN value
    ELSE IF ~Truthy(value) THEN IntNum(0)
    ELSE IF WonMatch(JsString(value)) # <<>>
         THEN Str(SelectSeq(WonMatch(JsString(value)), LAMBDA c : c # ","))
         ELSE OrZero(ParseFloat(KeepNumeric(BeforeBr(JsString(value)))))

extractKRW(value) ==
    IF value.t = "num" THEN value
    ELSE IF ~Truthy(value) THEN IntNum(0)
    ELSE LET str == JsString(value)
             wonMatch == WonMatch(str)
         IN  IF wonMatch # <<>>
             THEN OrZero(ParseFloat(SelectSeq(wonMatch, LAMBDA c : c # ",")))
             ELSE OrZero(ParseFloat(KeepNumeric(BeforeBr(str))))

-----------------------------------------------------------------------------
(* Specification SpecKRW: extractKRW applied to a value, then to its own result *)

\* an amount text is a prefix, a body and a suffix
KRWPrefixes == {<<>>, <<"WON">>, <<"WON", " ">>, <<"-">>, <<"a", "b">>, <<" ">>}
KRWBodies == {<<>>, <<"3", "6", ",", "4", "1", "1">>, <<"1", "5", "0", "0">>, <<"0">>,
              <<"1", "2", ".", "5", "0">>, <<"1", ".", "2", ".", "3">>, <<".">>, <<",">>,
              <<"-">>}
KRWSuffixes == {<<>>, <<"won">>, <<"<", "b", "r">>, <<"WON", "5">>,
                <<"<", "b", "r", "/", ">", "[", "U", "S", "D", "]", "2", "5", ".", "7", "2">>,
                <<"<", "B", "R", " ", ">", "9">>}

KRWTexts == {p \o b \o x : p \in KRWPrefixes, b \in KRWBodies, x \in KRWSuffixes}

KRWInputs == {Nil, IntNum(0), IntNum(1500), IntNum(-20), Num(125, 1)}
             \cup {Str(x) : x \in KRWTexts}

InitKRW ==
    /\ definitions = SOURCE_DEFINITIONS
    /\ rules = Nil
    /\ env = DefaultEnv
    /\ file = Nil
    /\ pc = "extract"
    /\ sourceInfo = Nil
    /\ promise = Nil
    /\ calls = <<>>
    /\ arg \in KRWInputs
    /\ ret = <<>>

\* extractKRW(value), then extractKRW of that result
ExtractKRW ==
    /\ pc = "extract"
    /\ Len(ret) < 2
    /\ ret' = Append(ret, extractKRW(IF ret = <<>> THEN arg ELSE ret[Len(ret)]))
    /\ pc' = IF Len(ret) = 1 THEN "done" ELSE pc
    /\ UNCHANGED <<definitions, rules, env, file, sourceInfo, promise, calls, arg>>

NextKRW == ExtractKRW

SpecKRW == InitKRW /\ [][NextKRW]_vars

HasDigit(s) == \E i \in 1..Len(s) : s[i] \in DigitSet

\* C9: extractKRW is idempotent, a number passes through unchanged, a value
\* without a parseable digit (in particular '' and an absent value) yields 0, and
\* every result is a plain number, never text.
C9_ExtractKRWIdempotent ==
    /\ \A k \in 1..Len(ret) : ret[k].t = "num"
    /\ Len(ret) >= 1 =>
        /\ arg.t = "num" => ret[1] = arg
        /\ arg.t = "nil" => ret[1] = IntNum(0)
        /\ (arg.t = "str" /\ ~HasDigit(arg.s)) => ret[1] = IntNum(0)
    /\ Len(ret) = 2 => ret[2] = ret[1]

\* C9 witness: a won-sign amount followed by a foreign-currency note was
\* extracted twice with the same non-zero result
C9_Witness ==
    /\ Len(ret) = 2
    /\ arg.t = "str"
    /\ \E i \in 1..Len(arg.s) : arg.s[i] = "WON"
    /\ \E i \in 1..Len(arg.s) : BrAt(arg.s, i)
    /\ ret[1] = IntNum(36411)
    /\ ret[2] = ret[1]

-----------------------------------------------------------------------------
(* processor.js: Processor.formatDate *)

\* a Date object, by its local calendar fields
DateOf(y, m, d) == [t |-> "date", y |-> y, m |-> m, d |-> d]

MS_PER_DAY == 86400000
MS_PER_HOUR == 3600000
EXCEL_EPOCH_OFFSET == 25569

\* days since 1970-01-01 of a proleptic Gregorian date
DaysFromCivil(y0, m, d) ==
    LET y == IF m <= 2 THEN y0 - 1 ELSE y0
        era == y \div 400
        yoe == y - era * 400
        doy == (153 * (IF m > 2 THEN m - 3 ELSE m + 9) + 2) \div 5 + d - 1
        doe == yoe * 365 + yoe \div 4 - yoe \div 100 + doy
    IN  era * 146097 + doe - 719468

\* the calendar date of a day count since 1970-01-01: what getFullYear(),
\* getMonth() + 1 and getDate() read
CivilFromDays(days) ==
    LET z == days + 719468
        era == z \div 146097
        doe == z - era * 146097
        yoe == (doe - doe \div 1460 + doe \div 36524 - doe \div 146096) \div 365
        doy == doe - (365 * yoe + yoe \div 4 - yoe \div 100)
        mp == (5 * doy + 2) \div 153
        d == doy - (153 * mp + 2) \div 5 + 1
        m == IF mp < 10 THEN mp + 3 ELSE mp - 9
    IN  DateOf(yoe + era * 400 + (IF m <= 2 THEN 1 ELSE 0), m, d)

\* local calendar date of the instant msOfDay milliseconds into UTC day `days`
LocalDate(days, msOfDay, e) == CivilFromDays(days + (msOfDay + e.tz * MS_PER_HOUR) \div MS_PER_DAY)

\* `${year}-${month}-${day}` with month and day padded to two digits
Ymd(dt) == NatToStr(dt.y) \o <<"-">> \o PadLeft(NatToStr(dt.m), 2)
           \o <<"-">> \o PadLeft(NatToStr(dt.d), 2)

\* new Date(Math.round((d - 25569) * 86400 * 1000)) for a serial with at most
\* five decimals (the product is then a whole number of milliseconds)
SerialDate(v, e) ==
    LET p == Pow10(v.e)
        whole == v.m \div p
        frac == v.m % p
    IN  LocalDate(whole - EXCEL_EPOCH_OFFSET, frac * (MS_PER_DAY \div p), e)

AllDigits(s) == \A i \in 1..Len(s) : s[i] \in DigitSet

\* /^\d{8}$/
IsEightDigits(s) == Len(s) = 8 /\ AllDigits(s)

\* /^\d{4}-\d{2}-\d{2}$/
IsYmd(s) ==
    /\ Len(s) = 10
    /\ s[5] = "-" /\ s[8] = "-"
    /\ \A i \in {1, 2, 3, 4, 6, 7, 9, 10} : s[i] \in DigitSet

\* str.split(/[\sT]+/)[0]
FirstSegment(str) ==
    LET stops == {j \in 1..Len(str) : str[j] \in WS \cup {"T"}}
    IN  IF stops = {} THEN str
        ELSE SubSeq(str, 1, (CHOOSE j \in stops : \A k \in stops : j <= k) - 1)

\* str.replace(/[\.\/]/g, '-')
DashSeparators(str) == [i \in 1..Len(str) |-> IF str[i] \in {".", "/"} THEN "-" ELSE str[i]]

\* Date.parse(str) followed by new Date(parsed): the date-only forms YYYY and
\* YYYY-MM of the ECMAScript format are UTC midnight; for any other text the
\* result is the host's choice, e.parse (Nil when Date.parse gives NaN)
DateParse(str, e) ==
    IF Len(str) = 4 /\ AllDigits(str)
    THEN LocalDate(DaysFromCivil(DigitsToNat(str), 1, 1), 0, e)
    ELSE IF /\ Len(str) = 7 /\ str[5] = "-"
            /\ AllDigits(SubSeq(str, 1, 4)) /\ AllDigits(SubSeq(str, 6, 7))
            /\ DigitsToNat(SubSeq(str, 6, 7)) \in 1..12
    THEN LocalDate(DaysFromCivil(DigitsToNat(SubSeq(str, 1, 4)),
                                 DigitsToNat(SubSeq(str, 6, 7)), 1), 0, e)
    ELSE e.parse

\* mutant: the separators '.' and '/' are left as they are
formatDate_KeepSeparators(d, e) ==
    IF ~Truthy(d) THEN <<>>
    ELSE IF d.t = "date" THEN Ymd(d)
    ELSE IF d.t = "num" THEN Ymd(SerialDate(d, e))
    ELSE LET str == FirstSegment(Trim(JsString(d)))
         IN  IF IsEightDigits(str)
             THEN SubSeq(str, 1, 4) \o <<"-">> \o SubSeq(str, 5, 6) \o <<"-">> \o SubSeq(str, 7, 8)
             ELSE IF IsYmd(str) THEN str
             ELSE IF DateParse(str, e) # Nil THEN Ymd(DateParse(str, e))
             ELSE str

formatDate(d, e) ==
    IF ~Truthy(d) THEN <<>>
    ELSE IF d.t = "date" THEN Ymd(d)
    ELSE IF d.t = "num" THEN Ymd(SerialDate(d, e))
    ELSE LET str == DashSeparators(FirstSegment(Trim(JsString(d))))
         IN  IF IsEightDigits(str)
             THEN SubSeq(str, 1, 4) \o <<"-">> \o SubSeq(str, 5, 6) \o <<"-">> \o SubSeq(str, 7, 8)
             ELSE IF IsYmd(str) THEN str
             ELSE IF DateParse(str, e) # Nil THEN Ymd(DateParse(str, e))
             ELSE str

-----------------------------------------------------------------------------
(* Specification SpecDate: one call of formatDate *)

D_20250115 == <<"2", "0", "2", "5", "0", "1", "1", "5">>
D_2025_01_15 == <<"2", "0", "2", "5", "-", "0", "1", "-", "1", "5">>

DateBodies == {<<>>, D_20250115, D_2025_01_15,
               <<"2", "0", "2", "5", ".", "0", "1", ".", "1", "5">>,
               <<"2", "0", "2", "5", "/", "0", "1", "/", "1", "5">>,
               <<"2", "0", "2", "5", ".", "0", "1", "/", "1", "5">>,
               <<"2", "0", "2", "5", ".", "1", ".", "5">>,
               <<"1", "5", "/", "0", "1", "/", "2", "0", "2", "5">>,
               <<"2", "0", "2", "5">>, <<"2", "0", "2", "5", "-", "0", "3">>,
               <<"2", "0", "2", "5", "-", "1", "3">>,
               <<"2", "0", "2", "5", "0", "1", "1">>,
               <<"2", "0", "2", "5", "0", "1", "1", "5", "5">>,
               <<"2", "0", "2", "5", "-", "0", "1", "-", "1", "x">>,
               <<"h", "e", "l", "l", "o">>, <<"J", "a", "n">>}
DateLeads == {<<>>, <<" ">>}
DateTrails == {<<>>, <<" ", "1", "3", ":", "2", "0">>, <<"T", "1", "3", ":", "2", "0">>,
               <<"\t", " ", "P", "M">>, <<" ">>}

DateInputs ==
    {Nil, IntNum(0), IntNum(1), IntNum(25569), IntNum(45672), Num(4567275, 2),
     Num(999999, 5), DateOf(2026, 1, 5), DateOf(999, 12, 31)}
    \cup {Str(l \o b \o x) : l \in DateLeads, b \in DateBodies, x \in DateTrails}

DateEnvs == {[tz |-> z, parse |-> q, today |-> DateOf(2026, 1, 5), build |-> "processor.js"] :
                z \in {-5, 0, 9}, q \in {Nil, DateOf(2025, 1, 5)}}

InitDate ==
    /\ definitions = SOURCE_DEFINITIONS
    /\ rules = Nil
    /\ env \in DateEnvs
    /\ file = Nil
    /\ pc = "format"
    /\ sourceInfo = Nil
    /\ promise = Nil
    /\ calls = <<>>
    /\ arg \in DateInputs
    /\ ret = Nil

FormatDate ==
    /\ pc = "format"
    /\ ret' = formatDate(arg, env)
    /\ pc' = "formatted"
    /\ UNCHANGED <<definitions, rules, env, file, sourceInfo, promise, calls, arg>>

NextDate == FormatDate

SpecDate == InitDate /\ [][NextDate]_vars

\* s is YYYY, a separator '.' or '/', MM, a separator, DD, whitespace, and a time
IsSeparatedDateTime(s) ==
    /\ Len(s) > 11
    /\ AllDigits(SubSeq(s, 1, 4)) /\ AllDigits(SubSeq(s, 6, 7)) /\ AllDigits(SubSeq(s, 9, 10))
    /\ s[5] \in {".", "/"} /\ s[8] \in {".", "/"}
    /\ s[11] \in WS
    /\ s[12] \in DigitSet

\* the date part of such a string, with '-' separators
DashedDatePart(s) == SubSeq(s, 1, 4) \o <<"-">> \o SubSeq(s, 6, 7) \o <<"-">> \o SubSeq(s, 9, 10)

\* the text up to the first whitespace or 'T' of the trimmed string, '.' and '/'
\* replaced by '-'
CleanedDate(s) ==
    LET t == Trim(s)
        cut == {j \in 1..Len(t) : t[j] \in WS \/ t[j] = "T"}
        seg == IF cut = {} THEN t ELSE SubSeq(t, 1, (CHOOSE j \in cut : \A k \in cut : j <= k) - 1)
    IN  [i \in 1..Len(seg) |-> IF seg[i] = "." \/ seg[i] = "/" THEN "-" ELSE seg[i]]

\* C10: formatDate maps eight digits YYYYMMDD to YYYY-MM-DD, returns a string
\* already YYYY-MM-DD unchanged, returns the date part with '-' separators for a
\* string with '.' or '/' separators and a trailing time, and returns the cleaned
\* string when no strategy parses it.
C10_FormatDateStrings ==
    (pc = "formatted" /\ arg.t = "str") =>
        /\ IsEightDigits(arg.s) =>
               ret = SubSeq(arg.s, 1, 4) \o <<"-">> \o SubSeq(arg.s, 5, 6)
                     \o <<"-">> \o SubSeq(arg.s, 7, 8)
        /\ IsYmd(arg.s) => ret = arg.s
        /\ IsSeparatedDateTime(arg.s) => ret = DashedDatePart(arg.s)
        /\ (/\ ~IsEightDigits(CleanedDate(arg.s))
            /\ ~IsYmd(CleanedDate(arg.s))
            /\ DateParse(CleanedDate(arg.s), env) = Nil) => ret = CleanedDate(arg.s)

\* C10 witness: "2025.01.15 13:20" was formatted as "2025-01-15"
C10_Witness ==
    /\ pc = "formatted"
    /\ arg = Str(<<"2", "0", "2", "5", ".", "0", "1", ".", "1", "5", " ", "1", "3", ":", "2", "0">>)
    /\ ret = D_2025_01_15

-----------------------------------------------------------------------------
(* processor.js: the Field Mapper, getColIdx of normalizeData and of          *)
(* normalizeSalarySummary                                                    *)

\* a mapping entry that is an array of header names
List(items) == [t |-> "list", items |-> items]

\* zero-based index of the first position in S (one-based positions), -1 if none
FirstIndex(S) == IF S = {} THEN -1 ELSE (CHOOSE i \in S : \A j \in S : i <= j) - 1

\* headerRow.indexOf(target)
IndexOf(headerRow, target) == FirstIndex({i \in 1..Len(headerRow) : headerRow[i] = target})

\* headerRow.findIndex(h => h.replace(/\s+/g, '') === cleanTarget)
FuzzyIndex(headerRow, target) ==
    FirstIndex({i \in 1..Len(headerRow) : StripWs(headerRow[i]) = StripWs(target)})

\* headerRow.findIndex(h => h.includes(target))
SubstringIndex(headerRow, target) ==
    FirstIndex({i \in 1..Len(headerRow) : Includes(headerRow[i], target)})

\* the three strategies for one target, -1 if none finds a column
ResolveTarget(headerRow, target) ==
    IF IndexOf(headerRow, target) # -1 THEN IndexOf(headerRow, target)
    ELSE IF FuzzyIndex(headerRow, target) # -1 THEN FuzzyIndex(headerRow, target)
    ELSE SubstringIndex(headerRow, target)

RECURSIVE TryTargets(_, _, _)
\* for (const target of targetCols)
TryTargets(headerRow, targetCols, k) ==
    IF k > Len(targetCols) THEN -1
    ELSE IF ResolveTarget(headerRow, targetCols[k]) # -1
         THEN ResolveTarget(headerRow, targetCols[k])
         ELSE TryTargets(headerRow, targetCols, k + 1)

\* fieldName ? (Array.isArray(fieldName) ? fieldName : [fieldName]) : []
TargetCols(fieldName) ==
    IF ~Truthy(fieldName) THEN <<>>
    ELSE IF fieldName.t = "list" THEN fieldName.items
    ELSE <<fieldName.s>>

\* mutant: one pass over the columns, taking the first that satisfies any strategy
getColIdx_AnyStrategy(headerRow, fieldName) ==
    FirstIndex({i \in 1..Len(headerRow) :
        \E k \in 1..Len(TargetCols(fieldName)) :
            \/ headerRow[i] = TargetCols(fieldName)[k]
            \/ StripWs(headerRow[i]) = StripWs(TargetCols(fieldName)[k])
            \/ Includes(headerRow[i], TargetCols(fieldName)[k])})

\* normalizeData: getColIdx
getColIdx(headerRow, fieldName) == TryTargets(headerRow, TargetCols(fieldName), 1)

\* normalizeSalarySummary: getColIdx takes one name; an array has no replace()
SalaryGetColIdxThrows(fieldName) == Truthy(fieldName) /\ fieldName.t # "str"

\* normalizeSalarySummary: getColIdx
SalaryGetColIdx(headerRow, fieldName) ==
    IF ~Truthy(fieldName) THEN -1 ELSE ResolveTarget(headerRow, fieldName.s)

-----------------------------------------------------------------------------
(* Specification SpecMapper: one call of a getColIdx *)

MaxHeaderCols == 3

MapperCells == {W_iyonggeumaekwon, W_iyonggeumaek,
                <<"i", "yong", " ", "geum", "aek">>,
                <<"i", "yong", "geum", "aek", " ", "(", "won", ")">>,
                W_iyongil, <<>>, W_georaegeumaek}

MapperFields == {Nil, Str(<<>>), Str(W_iyonggeumaekwon), Str(W_iyonggeumaek), Str(W_iyongil),
                 List(<<>>), List(<<W_iyonggeumaekwon, W_iyonggeumaek>>),
                 List(<<W_iyonggeumaek, W_iyonggeumaekwon>>),
                 List(<<W_georaeil, W_iyonggeumaek>>)}

InitMapper ==
    /\ definitions = SOURCE_DEFINITIONS
    /\ rules = Nil
    /\ env = DefaultEnv
    /\ file = Nil
    /\ pc \in {"normalizeData", "normalizeSalarySummary"}
    /\ sourceInfo = Nil
    /\ promise = Nil
    /\ calls = <<>>
    /\ arg \in {[headerRow |-> h, fieldName |-> f] :
                    h \in SeqsUpTo(MapperCells, MaxHeaderCols), f \in MapperFields}
    /\ ret = Nil

GetColIdx ==
    /\ pc = "normalizeData"
    /\ ret' = [threw |-> FALSE, idx |-> getColIdx(arg.headerRow, arg.fieldName)]
    /\ pc' = "returned"
    /\ UNCHANGED <<definitions, rules, env, file, sourceInfo, promise, calls, arg>>

SalaryGetColIdx_ ==
    /\ pc = "normalizeSalarySummary"
    /\ ret' = IF SalaryGetColIdxThrows(arg.fieldName) THEN [threw |-> TRUE, idx |-> -1]
              ELSE [threw |-> FALSE, idx |-> SalaryGetColIdx(arg.headerRow, arg.fieldName)]
    /\ pc' = "returned"
    /\ UNCHANGED <<definitions, rules, env, file, sourceInfo, promise, calls, arg>>

NextMapper == GetColIdx \/ SalaryGetColIdx_

SpecMapper == InitMapper /\ [][NextMapper]_vars

\* the header names a field maps to, in order
MappedNames(f) == IF f.t = "list" THEN f.items ELSE IF f.t = "str" /\ f.s # <<>> THEN <<f.s>> ELSE <<>>

EqualsCell(h, name) == \E i \in 1..Len(h) : h[i] = name

\* some cell of h satisfies one of the three strategies for name
MatchesLoosely(h, name) ==
    \E i \in 1..Len(h) :
        \/ h[i] = name
        \/ SelectSeq(h[i], LAMBDA c : c \notin WS) = SelectSeq(name, LAMBDA c : c \notin WS)
        \/ Includes(h[i], name)

-----------------------------------------------------------------------------
(* processor.js: Processor.normalizeData *)

\* a mapping entry the definition does not have reads as undefined
MapEntry(map, key) == IF key \in DOMAIN map THEN map[key] ELSE Nil

\* row[idx]: undefined outside the row, in particular for idx = -1
Cell(row, idx) == IF idx >= 0 /\ idx < Len(row) THEN row[idx + 1] ELSE Nil

\* the amount clean-up: extractKRW in processor.js; in the older copy a string is
\* stripped to digits, '.' and '-' and parsed, a number is left as it is
CleanAmount(valAmount, e) ==
    IF e.build = "processor.js" THEN extractKRW(valAmount)
    ELSE IF valAmount.t = "str" THEN OrZero(ParseFloat(KeepNumeric(valAmount.s)))
    ELSE valAmount

\* mutant: the alternate amount column is preferred
RowAmount_AltFirst(row, idxAmtMain, idxAmtAlt) ==
    IF idxAmtAlt # -1 /\ Truthy(Cell(row, idxAmtAlt)) THEN Cell(row, idxAmtAlt)
    ELSE IF idxAmtMain # -1 /\ Truthy(Cell(row, idxAmtMain)) THEN Cell(row, idxAmtMain)
    ELSE IntNum(0)

\* let valAmount = 0; if (main) valAmount = row[idxAmtMain]; else if (alt) ...
RowAmount(row, idxAmtMain, idxAmtAlt) ==
    IF idxAmtMain # -1 /\ Truthy(Cell(row, idxAmtMain)) THEN Cell(row, idxAmtMain)
    ELSE IF idxAmtAlt # -1 /\ Truthy(Cell(row, idxAmtAlt)) THEN Cell(row, idxAmtAlt)
    ELSE IntNum(0)

\* for (let i = headerIndex + 1; i < jsonData.length; i++): the zero-based
\* indexes of the rows that reach results.push, in order
DataRowIndexes(jsonData, headerIndex, idxDate) ==
    SelectSeq([i \in 1..Len(jsonData) |-> i - 1],
              LAMBDA i : /\ i >= headerIndex + 1
                         /\ Len(jsonData[i + 1]) # 0
                         /\ Truthy(Cell(jsonData[i + 1], idxDate)))

\* the k-th record pushed; id is the k-th value of crypto.randomUUID()
normalizeData(filename, jsonData, info, e) ==
    LET map == info.def.mapping
        idxDate == getColIdx(info.headerRow, MapEntry(map, "date"))
        idxTime == getColIdx(info.headerRow, MapEntry(map, "time"))
        idxDesc == getColIdx(info.headerRow, MapEntry(map, "raw_description"))
        idxAmtMain == getColIdx(info.headerRow, MapEntry(map, "amount"))
        idxAmtAlt == getColIdx(info.headerRow, MapEntry(map, "amount_alt"))
        kept == DataRowIndexes(jsonData, info.headerIndex, idxDate)
    IN  [k \in 1..Len(kept) |->
            LET row == jsonData[kept[k] + 1]
            IN  [id |-> k,
                 date |-> formatDate(Cell(row, idxDate), e),
                 time |-> IF idxTime # -1 /\ Truthy(Cell(row, idxTime))
                          THEN Cell(row, idxTime) ELSE Str(<<>>),
                 amount |-> CleanAmount(RowAmount(row, idxAmtMain, idxAmtAlt), e),
                 raw_description |-> IF idxDesc # -1 /\ Truthy(Cell(row, idxDesc))
                                     THEN Trim(JsString(Cell(row, idxDesc))) ELSE <<>>,
                 item |-> <<>>,
                 category_detail |-> <<>>,
                 category_main |-> <<>>,
                 category_mso |-> <<>>,
                 raw_source |-> info.def.name,
                 raw_filename |-> filename]]

-----------------------------------------------------------------------------
(* processor.js: Processor.normalizeSalarySummary *)

W_hapgye == <<"hap", "gye">>
W_jigwoningeonbi == <<"jik", "won", "in", "geon", "bi">>
W_MSO == <<"M", "S", "O", "in", "jeong", "gyeong", "bi">>

\* mutant: only a cell that is exactly the marker counts
RowContainsTotal_ExactOnly(row) ==
    \E c \in 1..Len(row) :
        Truthy(row[c]) /\ StripWs(Trim(JsString(row[c]))) = W_hapgye

\* row.some(cell => cell && String(cell).trim().replace(/\s+/g, '').includes(marker))
RowContainsTotal(row) ==
    \E c \in 1..Len(row) :
        Truthy(row[c]) /\ Includes(StripWs(Trim(JsString(row[c]))), W_hapgye)

\* a + b for numbers
NumAdd(a, b) ==
    LET e == IF a.e > b.e THEN a.e ELSE b.e
    IN  Num(a.m * Pow10(e - a.e) + b.m * Pow10(e - b.e), e)

\* x / 12: a decimal when the quotient terminates, else the quotient kept as the
\* fraction m * 10^(-e) / over
Twelfth(x) ==
    IF (x.m * 100) % 12 = 0 THEN Num((x.m * 100) \div 12, x.e + 2)
    ELSE [t |-> "num", m |-> x.m, e |-> x.e, over |-> 12]

\* mutant: the label is also written to category_detail
SalaryEntry_DetailSet(k, date, amount, desc, item, def, filename) ==
    [id |-> k, date |-> date, time |-> Str(<<>>), amount |-> amount,
     raw_description |-> desc, item |-> item, category_detail |-> item,
     category_main |-> W_jigwoningeonbi, category_mso |-> W_MSO,
     raw_source |-> def.name, raw_filename |-> filename]

SalaryEntry(k, date, amount, desc, item, def, filename) ==
    [id |-> k, date |-> date, time |-> Str(<<>>), amount |-> amount,
     raw_description |-> desc, item |-> item, category_detail |-> <<>>,
     category_main |-> W_jigwoningeonbi, category_mso |-> W_MSO,
     raw_source |-> def.name, raw_filename |-> filename]

normalizeSalarySummary(filename, jsonData, info, e) ==
    LET map == info.def.mapping
        idxNetPayment == SalaryGetColIdx(info.headerRow, MapEntry(map, "net_payment"))
        idxTotalDeduction == SalaryGetColIdx(info.headerRow, MapEntry(map, "total_deduction"))
        totals == {i \in (info.headerIndex + 1)..(Len(jsonData) - 1) :
                      Len(jsonData[i + 1]) # 0 /\ RowContainsTotal(jsonData[i + 1])}
    IN  IF totals = {} THEN <<>>
        ELSE LET totalRow == jsonData[(CHOOSE i \in totals : \A j \in totals : i <= j) + 1]
                 orZero(c) == IF Truthy(c) THEN c ELSE IntNum(0)
                 netPaymentValue == extractKRW(orZero(Cell(totalRow, idxNetPayment)))
                 totalDeductionValue == extractKRW(orZero(Cell(totalRow, idxTotalDeduction)))
                 stdDate == formatDate(e.today, e)
             IN  <<SalaryEntry(1, stdDate, netPaymentValue,
                               <<"jik", "won", " ", "in", "geon", "bi">>, W_jigwoningeonbi,
                               info.def, filename),
                   SalaryEntry(2, stdDate, totalDeductionValue,
                               <<"jik", "won", "so", "deuk", "se">>,
                               <<"jik", "won", "so", "deuk", "se">>, info.def, filename),
                   SalaryEntry(3, stdDate, Twelfth(NumAdd(netPaymentValue, totalDeductionValue)),
                               <<"jik", "won", " ", "toe", "jik", "yeon", "geum">>,
                               <<"jik", "won", " ", "toe", "jik", "yeon", "geum">>,
                               info.def, filename)>>

-----------------------------------------------------------------------------
(* processor.js: Processor.classifyData *)

UPPER == <<"A", "B", "C", "D", "E", "F", "G", "H", "I", "J", "K", "L", "M",
           "N", "O", "P", "Q", "R", "S", "T", "U", "V", "W", "X", "Y", "Z">>
LOWER == <<"a", "b", "c", "d", "e", "f", "g", "h", "i", "j", "k", "l", "m",
           "n", "o", "p", "q", "r", "s", "t", "u", "v", "w", "x", "y", "z">>

\* s.toLowerCase()
ToLowerCase(s) ==
    [i \in 1..Len(s) |->
        IF \E k \in 1..26 : UPPER[k] = s[i]
        THEN LOWER[CHOOSE k \in 1..26 : UPPER[k] = s[i]] ELSE s[i]]

\* keywords.some(k => desc.includes(k.toLowerCase()))
RuleMatches(rule, entry) ==
    \E k \in 1..Len(rule.keywords) :
        Includes(ToLowerCase(entry.raw_description), ToLowerCase(rule.keywords[k]))

\* mutant: the legacy description_out is written to raw_description
ApplyUpdates_OverwritesDescription(entry, updates) ==
    IF updates = Nil THEN entry
    ELSE LET has(f) == f \in DOMAIN updates
         IN  [entry EXCEPT
                 !.item = IF has("item") THEN updates.item ELSE @,
                 !.raw_description = IF has("description_out")
                                     THEN updates.description_out ELSE @,
                 !.category_detail = IF has("category_detail")
                                     THEN updates.category_detail ELSE @,
                 !.category_main = IF has("category_main") THEN updates.category_main ELSE @,
                 !.category_mso = IF has("category_mso") THEN updates.category_mso ELSE @]

\* the updates of a matched rule, applied field by field
ApplyUpdates(entry, updates) ==
    IF updates = Nil THEN entry
    ELSE LET has(f) == f \in DOMAIN updates
             item1 == IF has("item") THEN updates.item ELSE entry.item
             item2 == IF has("description_out") /\ item1 = <<>>
                      THEN updates.description_out ELSE item1
         IN  [entry EXCEPT
                 !.item = item2,
                 !.category_detail = IF has("category_detail")
                                     THEN updates.category_detail ELSE @,
                 !.category_main = IF has("category_main") THEN updates.category_main ELSE @,
                 !.category_mso = IF has("category_mso") THEN updates.category_mso ELSE @]

RECURSIVE ApplyRules_NoBreak(_, _, _)
\* mutant: no break, every matching rule is applied in turn
ApplyRules_NoBreak(entry, rls, k) ==
    IF k > Len(rls) THEN entry
    ELSE IF RuleMatches(rls[k], entry)
    THEN ApplyRules_NoBreak(ApplyUpdates(entry, rls[k].updates), rls, k + 1)
    ELSE ApplyRules_NoBreak(entry, rls, k + 1)

RECURSIVE ApplyRules(_, _, _)
\* for (const rule of window.CLASSIFICATION_RULES) { if (isMatch) { ...; break; } }
ApplyRules(entry, rls, k) ==
    IF k > Len(rls) THEN entry
    ELSE IF RuleMatches(rls[k], entry) THEN ApplyUpdates(entry, rls[k].updates)
    ELSE ApplyRules(entry, rls, k + 1)

W_kadeu == <<"ka", "deu">>
W_gyejwa == <<"gye", "jwa">>

\* mutant: the account marker is tested before the card marker
Derive_AccountFirst(entry) ==
    LET isCard == Includes(entry.raw_source, W_kadeu)
        isAccount == Includes(entry.raw_source, W_gyejwa)
        blank == Str(<<>>)
    IN  [id |-> entry.id, date |-> entry.date, time |-> entry.time,
         amount |-> entry.amount, raw_description |-> entry.raw_description,
         item |-> entry.item, category_detail |-> entry.category_detail,
         category_main |-> entry.category_main, category_mso |-> entry.category_mso,
         raw_source |-> entry.raw_source, raw_filename |-> entry.raw_filename,
         display_date |-> entry.date,
         col_transfer |-> IF isAccount THEN entry.amount ELSE blank,
         col_account |-> IF isAccount THEN Str(entry.raw_source) ELSE blank,
         col_cash |-> IF ~isCard /\ ~isAccount THEN entry.amount ELSE blank,
         col_card |-> IF isCard /\ ~isAccount THEN entry.amount ELSE blank,
         col_card_detail |-> IF isCard /\ ~isAccount THEN Str(entry.raw_source) ELSE blank]

\* the derived columns
Derive(entry) ==
    LET isCard == Includes(entry.raw_source, W_kadeu)
        isAccount == Includes(entry.raw_source, W_gyejwa)
        blank == Str(<<>>)
    IN  [id |-> entry.id, date |-> entry.date, time |-> entry.time,
         amount |-> entry.amount, raw_description |-> entry.raw_description,
         item |-> entry.item, category_detail |-> entry.category_detail,
         category_main |-> entry.category_main, category_mso |-> entry.category_mso,
         raw_source |-> entry.raw_source, raw_filename |-> entry.raw_filename,
         display_date |-> entry.date,
         col_transfer |-> IF ~isCard /\ isAccount THEN entry.amount ELSE blank,
         col_account |-> IF ~isCard /\ isAccount THEN Str(entry.raw_source) ELSE blank,
         col_cash |-> IF ~isCard /\ ~isAccount THEN entry.amount ELSE blank,
         col_card |-> IF isCard THEN entry.amount ELSE blank,
         col_card_detail |-> IF isCard THEN Str(entry.raw_source) ELSE blank]

\* rls is Nil when window.CLASSIFICATION_RULES is not set, else List(the rules)
classifyData(data, rls) ==
    [k \in 1..Len(data) |->
        Derive(IF rls = Nil THEN data[k] ELSE ApplyRules(data[k], rls.items, 1))]

\* a rule catalog in the shape classifyData reads (rules.js)
W_seutabeokseu == <<"seu", "ta", "beok", "seu">>
SAMPLE_RULES == <<
    [keywords |-> <<<<"S", "t", "a", "r">>, W_seutabeokseu>>,
     updates |-> [item |-> <<"keo", "pi">>, category_main |-> <<"bok", "ri">>]],
    [keywords |-> <<<<"seu", "ta">>>>,
     updates |-> [description_out |-> <<"gi", "ta">>, category_mso |-> W_MSO]],
    [keywords |-> <<<<"ju", "cha">>>>, updates |-> Nil] >>

-----------------------------------------------------------------------------
(* processor.js: Processor.processFile *)

W_failed == <<"sik", "byeol", " ", "sil", "pae", ".", " ", "he", "deo", ":", " ", "[">>

Pending == [state |-> "pending"]
Fulfilled(v) == [state |-> "fulfilled", value |-> v]
Rejected(err) == [state |-> "rejected", reason |-> err]

\* mutant: no return after the failure record, so normalizeData is entered
\* with no definition
AfterIdentify_NoReturn(f, info, rls, e) ==
    IF info.def = Nil
    THEN [sourceInfo |-> info,
          calls |-> <<"identifySource", "normalizeData">>,
          promise |-> Fulfilled(<<[error |-> TRUE, filename |-> f.name,
                                   msg |-> W_failed \o info.debugHeader \o <<"]">>]>>)]
    ELSE [sourceInfo |-> info,
          calls |-> <<"identifySource", "normalizeData", "classifyData">>,
          promise |-> Fulfilled(classifyData(
              normalizeData(f.name, info.jsonData, info, e), rls))]

\* the load handler from `if (!sourceInfo.def)` on; info is what identifySource
\* returned
AfterIdentify(f, info, rls, e) ==
    IF info.def = Nil
    THEN [sourceInfo |-> info,
          calls |-> <<"identifySource">>,
          promise |-> Fulfilled(<<[error |-> TRUE, filename |-> f.name,
                                   msg |-> W_failed \o info.debugHeader \o <<"]">>]>>)]
    ELSE IF e.build = "processor.js" /\ info.def.type = "salary_summary"
    THEN [sourceInfo |-> info,
          calls |-> <<"identifySource", "normalizeSalarySummary", "classifyData">>,
          promise |-> Fulfilled(classifyData(
              normalizeSalarySummary(f.name, info.jsonData, info, e), rls))]
    ELSE [sourceInfo |-> info,
          calls |-> <<"identifySource", "normalizeData", "classifyData">>,
          promise |-> Fulfilled(classifyData(
              normalizeData(f.name, info.jsonData, info, e), rls))]

\* reader.onload: what the handler leaves behind. f.workbook is what XLSX.read
\* returns for the (repaired) bytes, Nil when it throws
LoadHandler(f, defs, rls, e) ==
    IF f.workbook = Nil
    THEN [sourceInfo |-> Nil, calls |-> <<>>, promise |-> Rejected("XLSX.read")]
    ELSE AfterIdentify(f, identifySource(defs, f.name, f.workbook), rls, e)

-----------------------------------------------------------------------------
(* Specification Spec: processFile on one file *)

MaxDataRows == 2   \* rows below the header row

\* a layout: the header cells and what each column holds
Layout(header, cols) == [header |-> [k \in 1..Len(header) |-> Str(header[k])], cols |-> cols]

Layouts == {
    Layout(<<W_iyongil, W_iyongsigan, W_iyonghasingot, W_iyonggeumaekwon, W_iyonggeumaek>>,
           <<"date", "time", "desc", "main", "alt">>),
    Layout(<<W_iyongil, W_iyonghasingot, W_iyonggeumaek>>, <<"date", "desc", "alt">>),
    Layout(<<W_seunginilsi, W_gamaengjeommyeong, W_seungingeumaek, W_georaegeumaek>>,
           <<"date", "desc", "main", "alt">>),
    Layout(<<W_georaeilsi, W_georaesigan, W_jeokyo, W_chajeusingeumaek, W_matgisingeumaek>>,
           <<"date", "time", "desc", "main", "alt">>),
    Layout(<<<<"geo", " ", "rae", "il", "ja">>, W_gamaengjeommyeong, W_geumaek>>,
           <<"date", "desc", "main">>) }

DataRow(layout, cells) == [k \in 1..Len(layout.cols) |-> cells[layout.cols[k]]]

Cells(date, time, desc, main, alt) ==
    [date |-> date, time |-> time, desc |-> desc, main |-> main, alt |-> alt]

T_1320 == Str(<<"1", "3", ":", "2", "0">>)
T_Starbucks == Str(<<" ", "S", "T", "A", "R", "b", "u", "c", "k", "s", " ">>)
T_seuta == Str(<<"seu", "ta", "pil", "deu">>)
T_jucha == Str(<<"ju", "cha", "jang">>)
T_won == Str(<<"WON", "3", "6", ",", "4", "1", "1", "<", "b", "r", "/", ">",
               "[", "U", "S", "D", "]", "2", "5", ".", "7", "2">>)

DateCells == {Nil, Str(<<>>), IntNum(0), IntNum(45672), Str(D_20250115),
              Str(<<"2", "0", "2", "5", ".", "1", ".", "5", " ", "1", "3", ":", "2", "0">>)}

AmountPairs == {<<IntNum(12000), Nil>>, <<IntNum(700), IntNum(5000)>>,
                <<IntNum(0), IntNum(5000)>>, <<Nil, IntNum(5000)>>,
                <<Str(<<>>), Str(<<"3", ",", "3", "0", "0">>)>>,
                <<Str(<<"0">>), IntNum(5000)>>, <<T_won, IntNum(1)>>,
                <<Nil, T_won>>, <<Nil, Nil>>, <<IntNum(0), Str(<<>>)>>}

\* the first row below the header: every date cell, every pair of amount cells
FirstRowCells ==
    {Cells(d, T_1320, T_Starbucks, IntNum(12000), Nil) : d \in DateCells}
    \cup {Cells(Str(D_2025_01_15), Nil, T_seuta, a[1], a[2]) : a \in AmountPairs}

\* the rows below it
MoreRowCells ==
    {Cells(Nil, Nil, T_jucha, IntNum(900), Nil),
     Cells(IntNum(45673), Nil, IntNum(7), Nil, IntNum(450)),
     Cells(IntNum(0), T_1320, T_jucha, IntNum(0), IntNum(80))}

DataRows(layout) ==
    {<<>>}
    \cup {<<DataRow(layout, c)>> \o more :
              c \in FirstRowCells,
              more \in {<<>>, <<<<>>>>}
                  \cup {q \in SeqsUpTo({DataRow(layout, m) : m \in MoreRowCells},
                                       MaxDataRows - 1) : q # <<>>}}

\* rows above the header row: blank rows, or a row that has a date where the
\* header will put its date column
AboveRows(layout) ==
    {Blank(p) : p \in 0..MaxBlankRows}
    \cup {<<DataRow(layout, Cells(IntNum(45672), Nil, T_jucha, IntNum(100), Nil))>>}

PipelineSheets ==
    UNION {{above \o <<layout.header>> \o rows :
                above \in AboveRows(layout), rows \in DataRows(layout)} :
           layout \in Layouts}

\* a payroll summary: header, one employee, the totals row
PayrollFile ==
    [name |-> "pay.xls",
     workbook |-> Workbook(<<"S1">>, <<<<
         <<Str(<<"seong", "myeong">>), Str(<<"cha", "in", "ji", "geup", "aek">>),
           Str(<<"gong", "je", "hap", "gye">>)>>,
         <<Str(<<"gim">>), IntNum(3000000), IntNum(400000)>>,
         <<Str(<<"hap", "gye">>), IntNum(3000000), IntNum(400000)>> >>>>)]

\* workbook = Nil: XLSX.read throws on the bytes
PipelineFiles ==
    {PayrollFile,
     [name |-> "a.xls", workbook |-> Nil],
     [name |-> "a.xls", workbook |-> Workbook(<<>>, <<>>)],
     [name |-> "a.xls", workbook |-> Workbook(<<"S1">>, <<<<>>>>)],
     [name |-> "b.xls", workbook |-> Workbook(<<"S1">>, <<<<<<Str(W_memo), IntNum(0)>>>>>>)]}
    \cup {[name |-> "b.xls", workbook |-> Workbook(<<"S1">>, <<s>>)] : s \in PipelineSheets}

PipelineSettings ==
    {<<DefaultEnv, List(SAMPLE_RULES)>>, <<DefaultEnv, Nil>>,
     <<[DefaultEnv EXCEPT !.build = "part_000"], List(SAMPLE_RULES)>>,
     <<[DefaultEnv EXCEPT !.tz = -5], List(SAMPLE_RULES)>>}

Init ==
    /\ definitions = SOURCE_DEFINITIONS
    /\ \E st \in PipelineSettings : env = st[1] /\ rules = st[2]
    /\ file \in PipelineFiles
    /\ pc = "idle"
    /\ sourceInfo = Nil
    /\ promise = Nil
    /\ calls = <<>>
    /\ arg = Nil
    /\ ret = Nil

\* processFile(file): the promise is created and the read is started
ProcessFile ==
    /\ pc = "idle"
    /\ promise' = Pending
    /\ pc' = "reading"
    /\ UNCHANGED <<definitions, rules, env, file, sourceInfo, calls, arg, ret>>

\* reader.onload
OnLoad ==
    /\ pc = "reading"
    /\ \E out \in {LoadHandler(file, definitions, rules, env)} :
           /\ sourceInfo' = out.sourceInfo
           /\ calls' = out.calls
           /\ promise' = out.promise
    /\ pc' = "settled"
    /\ UNCHANGED <<definitions, rules, env, file, arg, ret>>

\* reader.onerror
OnError ==
    /\ pc = "reading"
    /\ promise' = Rejected("FileReader")
    /\ pc' = "settled"
    /\ UNCHANGED <<definitions, rules, env, file, sourceInfo, calls, arg, ret>>

Next == ProcessFile \/ OnLoad \/ OnError

Spec == Init /\ [][Next]_vars

-----------------------------------------------------------------------------
(* Claims about processFile and normalizeData, under Spec *)

Settled == pc = "settled"
\* the load handler ran past XLSX.read
Identified == Settled /\ calls # <<>>
\* the load handler resolved the promise with records
Normalized == Settled /\ Len(calls) = 3

Stage(c) == IF c = "identifySource" THEN 1 ELSE IF c = "classifyData" THEN 3 ELSE 2

FailureRecord ==
    [error |-> TRUE, filename |-> file.name,
     msg |-> W_failed \o DebugHeader(file.workbook) \o <<"]">>]

\* C5: the stages of processFile run in the order identify, normalize,
\* classify, each at most once; when identification finds no definition the
\* promise is resolved with exactly one failure record (error = true, the
\* filename, the header probe) and neither normalizer nor the classifier runs.
C5_StagesInOrder ==
    /\ \A i \in 1..Len(calls) : Stage(calls[i]) = i
    /\ (Identified /\ sourceInfo.def = Nil) =>
           /\ promise.state = "fulfilled"
           /\ promise.value = <<FailureRecord>>
           /\ calls = <<"identifySource">>
    /\ (Identified /\ sourceInfo.def # Nil) => Len(calls) = 3

C5_Witness ==
    /\ Identified
    /\ sourceInfo.def = Nil
    /\ promise.state = "fulfilled"
    /\ promise.value[1].msg = W_failed \o W_memo \o <<",", "0", "]">>

\* the columns normalizeData reads, and the rows below the header row
DateColumn == getColIdx(sourceInfo.headerRow, sourceInfo.def.mapping.date)
PrimaryColumn == getColIdx(sourceInfo.headerRow, sourceInfo.def.mapping.amount)
AlternateColumn == getColIdx(sourceInfo.headerRow, sourceInfo.def.mapping.amount_alt)
RowAt(i) == sourceInfo.jsonData[i + 1]

NonEmptyCell(c) == c # Nil /\ c # Str(<<>>)

\* the zero-based indexes of the rows after the header row whose date cell is
\* not empty, in row order
DatedRows ==
    SelectSeq([i \in 1..Len(sourceInfo.jsonData) |-> i - 1],
              LAMBDA i : /\ i > sourceInfo.headerIndex
                         /\ NonEmptyCell(Cell(RowAt(i), DateColumn)))

\* C7: normalizeData emits exactly one record for each row after the header
\* row whose date cell is non-empty, in row order, and none for any other row;
\* each record carries the definition's name and the input filename.
C7_OneRecordPerDatedRow ==
    Normalized =>
        /\ Len(promise.value) = Len(DatedRows)
        /\ \A k \in 1..Len(promise.value) :
               /\ promise.value[k].date = formatDate(Cell(RowAt(DatedRows[k]), DateColumn), env)
               /\ promise.value[k].raw_source = sourceInfo.def.name
               /\ promise.value[k].raw_filename = file.name

EmptyOrZero(c) == c = Nil \/ c = Str(<<>>) \/ c = IntNum(0)

\* the rows that produced the records, in order
EmittedRows == DataRowIndexes(sourceInfo.jsonData, sourceInfo.headerIndex, DateColumn)

\* C8: the amount of every emitted record is the extracted value of the row's
\* primary amount cell, unless that cell is empty (absent or '') or the number
\* zero, or the primary column is not resolved: exactly then it is the
\* extracted value of the alternate amount cell, and 0 when that cell is empty
\* or zero too.
C8_AmountPrefersPrimary ==
    Normalized =>
        \A k \in 1..Len(promise.value) :
            LET row == RowAt(EmittedRows[k])
                primary == Cell(row, PrimaryColumn)
                alternate == Cell(row, AlternateColumn)
                amount == promise.value[k].amount
            IN  IF ~EmptyOrZero(primary) THEN amount = CleanAmount(primary, env)
                ELSE IF ~EmptyOrZero(alternate) THEN amount = CleanAmount(alternate, env)
                ELSE amount = IntNum(0)

C8_Witness ==
    /\ Normalized
    /\ PrimaryColumn # -1
    /\ Len(promise.value) = 2
    /\ LET row == RowAt(EmittedRows[1])
       IN  /\ Cell(row, PrimaryColumn) = IntNum(0)
           /\ Cell(row, AlternateColumn) = IntNum(5000)
           /\ promise.value[1].amount = IntNum(5000)
    /\ promise.value[2].amount = IntNum(450)

-----------------------------------------------------------------------------
(* Specification SpecClassify: one call of classifyData *)

MaxRules == 2     \* rules in window.CLASSIFICATION_RULES
MaxRecords == 2   \* records handed to classifyData

W_seuta == <<"seu", "ta">>
W_jucha == <<"ju", "cha">>

\* rules in the shape classifyData reads: keywords and an optional updates object
RulePool == {
    [keywords |-> <<W_seuta>>,
     updates |-> [item |-> <<"A">>, category_main |-> <<"M", "A">>]],
    [keywords |-> <<<<"S", "t", "a", "r">>, W_seutabeokseu>>,
     updates |-> [description_out |-> <<"B">>, category_mso |-> <<"M", "B">>,
                  category_detail |-> <<"D", "B">>]],
    [keywords |-> <<W_jucha>>, updates |-> Nil],
    [keywords |-> <<<<"B", "U", "C", "K", "S">>>>,
     updates |-> [item |-> <<>>, description_out |-> <<"D">>, category_main |-> <<>>,
                  raw_description |-> <<"X">>, amount |-> IntNum(1)]],
    [keywords |-> <<>>, updates |-> [item |-> <<"E">>]],
    [keywords |-> <<<<>>>>, updates |-> [category_detail |-> <<"F">>]] }

RuleLists == {Nil} \cup {List(q) : q \in SeqsUpTo(RulePool, MaxRules)}

Entry(k, desc, amount, source, item, main) ==
    [id |-> k, date |-> D_2025_01_15, time |-> Str(<<>>), amount |-> amount,
     raw_description |-> desc, item |-> item, category_detail |-> <<>>,
     category_main |-> main, category_mso |-> <<>>,
     raw_source |-> source, raw_filename |-> "a.xls"]

Descriptions == {<<>>, <<"S", "T", "A", "R", "b", "u", "c", "k", "s">>, W_seutabeokseu,
                 <<"seu", "ta", "pil", "deu">>, <<"ju", "cha", "jang">>, <<"a", "b", "c">>}

SourceNames == {<<>>, <<"K", "B", "guk", "min", "ka", "deu">>, <<"ssi", "ti", "gye", "jwa">>,
                <<"ka", "deu", "gye", "jwa">>, <<"gye", "jwa", "ka", "deu">>,
                <<"hyeon", "geum">>}

\* what the classifier is handed: one record of every kind, or several records
ClassifyInputs ==
    {<<>>}
    \cup {<<Entry(1, d, IntNum(5000), n, <<>>, <<>>)>> : d \in Descriptions, n \in SourceNames}
    \cup {<<Entry(1, d, IntNum(0), <<"ssi", "ti", "ka", "deu">>, W_jigwoningeonbi,
                  W_jigwoningeonbi)>> : d \in Descriptions}
    \cup {q \in SeqsUpTo({Entry(7, W_seutabeokseu, Num(125, 1), <<"hyeon", "geum">>, <<>>, <<>>),
                          Entry(8, <<"ju", "cha">>, IntNum(-20), W_kadeu, <<"x">>, <<>>)},
                         MaxRecords) : Len(q) >= 2}

InitClassify ==
    /\ definitions = SOURCE_DEFINITIONS
    /\ rules \in RuleLists
    /\ env = DefaultEnv
    /\ file = Nil
    /\ pc = "classify"
    /\ sourceInfo = Nil
    /\ promise = Nil
    /\ calls = <<>>
    /\ arg \in ClassifyInputs
    /\ ret = Nil

\* classifyData(data)
ClassifyData ==
    /\ pc = "classify"
    /\ ret' = classifyData(arg, rules)
    /\ pc' = "classified"
    /\ UNCHANGED <<definitions, rules, env, file, sourceInfo, promise, calls, arg>>

NextClassify == ClassifyData

SpecClassify == InitClassify /\ [][NextClassify]_vars

-----------------------------------------------------------------------------
(* Claims about classifyData, under SpecClassify *)

Classified == pc = "classified"

RuleList == IF rules = Nil THEN <<>> ELSE rules.items

\* some keyword of the rule is a case-insensitive substring of the description
KeywordHit(rule, entry) ==
    \E k \in 1..Len(rule.keywords) :
        \E i \in 0..Len(entry.raw_description) :
            /\ i + Len(rule.keywords[k]) <= Len(entry.raw_description)
            /\ ToLowerCase(SubSeq(entry.raw_description, i + 1, i + Len(rule.keywords[k])))
                   = ToLowerCase(rule.keywords[k])

MatchingRules(entry) == {j \in 1..Len(RuleList) : KeywordHit(RuleList[j], entry)}

FirstMatchingRule(entry) ==
    RuleList[CHOOSE j \in MatchingRules(entry) : \A i \in MatchingRules(entry) : j <= i]

ClassFields == {"item", "category_detail", "category_main", "category_mso"}

\* the value one rule's updates give a classification field
Updated(entry, updates, f) ==
    IF updates = Nil THEN entry[f]
    ELSE IF f # "item" THEN (IF f \in DOMAIN updates THEN updates[f] ELSE entry[f])
    ELSE LET item == IF "item" \in DOMAIN updates THEN updates.item ELSE entry.item
         IN  IF "description_out" \in DOMAIN updates /\ item = <<>>
             THEN updates.description_out ELSE item

\* C11: rules are tested in list order against raw_description; only the
\* updates of the first matching rule are applied and no later rule changes
\* the record; a record no rule matches keeps its classification fields.
C11_FirstMatchWins ==
    Classified =>
        /\ Len(ret) = Len(arg)
        /\ \A k \in 1..Len(arg) : \A f \in ClassFields :
               ret[k][f] = IF MatchingRules(arg[k]) = {} THEN arg[k][f]
                           ELSE Updated(arg[k], FirstMatchingRule(arg[k]).updates, f)

\* a description two rules match: the first gives item "A", the second would
\* set category_mso
C11_Witness ==
    /\ Classified
    /\ Len(arg) = 1 /\ Len(RuleList) = 2
    /\ MatchingRules(arg[1]) = {1, 2}
    /\ "category_mso" \in DOMAIN RuleList[2].updates
    /\ ret[1].item = <<"A">>
    /\ ret[1].category_mso = <<>>

OwnedByOthers == {"id", "date", "time", "amount", "raw_description", "raw_source",
                  "raw_filename"}

\* C12: classifyData leaves id, date, time, amount, raw_description, raw_source
\* and raw_filename as they were, and changes a classification field only if
\* the applied rule's updates name it (item also through description_out).
C12_OnlyOwnedFieldsChange ==
    Classified =>
        /\ Len(ret) = Len(arg)
        /\ \A k \in 1..Len(arg) :
               /\ \A f \in OwnedByOthers : ret[k][f] = arg[k][f]
               /\ \A f \in ClassFields :
                      ret[k][f] # arg[k][f] =>
                          /\ MatchingRules(arg[k]) # {}
                          /\ FirstMatchingRule(arg[k]).updates # Nil
                          /\ \/ f \in DOMAIN FirstMatchingRule(arg[k]).updates
                             \/ /\ f = "item"
                                /\ "description_out" \in DOMAIN FirstMatchingRule(arg[k]).updates

\* the applied rule's updates also name raw_description and amount
C12_Witness ==
    /\ Classified
    /\ Len(arg) = 1
    /\ MatchingRules(arg[1]) # {}
    /\ FirstMatchingRule(arg[1]).updates # Nil
    /\ "raw_description" \in DOMAIN FirstMatchingRule(arg[1]).updates
    /\ ret[1].item = <<"D">>
    /\ ret[1].raw_description = arg[1].raw_description
    /\ ret[1].amount = IntNum(5000)

EmptyText == Str(<<>>)
CardGroup(r) == <<r.col_card, r.col_card_detail>>
TransferGroup(r) == <<r.col_transfer, r.col_account>>
CashGroup(r) == <<r.col_cash>>

\* C13: after classifyData every record has exactly one payment-channel group
\* filled: card (amount, source name) when the source name contains the card
\* marker, else transfer (amount, source name) when it contains the account
\* marker, else cash (amount); the other two groups are empty.
C13_OneChannelGroup ==
    Classified =>
        \A k \in 1..Len(ret) :
            LET r == ret[k]
                name == arg[k].raw_source
                filled == <<r.amount, Str(name)>>
                empty == <<EmptyText, EmptyText>>
            IN  IF Includes(name, W_kadeu)
                THEN CardGroup(r) = filled /\ TransferGroup(r) = empty /\ CashGroup(r) = <<EmptyText>>
                ELSE IF Includes(name, W_gyejwa)
                THEN CardGroup(r) = empty /\ TransferGroup(r) = filled /\ CashGroup(r) = <<EmptyText>>
                ELSE CardGroup(r) = empty /\ TransferGroup(r) = empty
                     /\ CashGroup(r) = <<r.amount>>

\* a source name with both markers, the account marker first
C13_Witness ==
    /\ Classified
    /\ Len(ret) = 1
    /\ arg[1].raw_source = <<"gye", "jwa", "ka", "deu">>
    /\ ret[1].col_card = IntNum(5000)
    /\ ret[1].col_transfer = EmptyText

-----------------------------------------------------------------------------
(* Specification SpecNormalize: the normalize and classify stages of the     *)
(* load handler, for an identified source (processor.js 39-52)                *)

MaxEmployeeRows == 1   \* rows between the header row and the totals row

W_chainjigeubaek == <<"cha", "in", "ji", "geup", "aek">>
W_gongjehapgye == <<"gong", "je", "hap", "gye">>
W_seongmyeong == <<"seong", "myeong">>
W_geubyeodaejang == <<"geup", "yeo", "dae", "jang">>

\* definitions of type salary_summary, in the shape normalizeSalarySummary
\* reads: with every mapped field, without total_deduction, with no mapped
\* field, and with a list of names where the code expects one name
SalaryDefinition(mapping) ==
    [type |-> "salary_summary", name |-> W_geubyeodaejang,
     signatures |-> <<W_seongmyeong, W_chainjigeubaek, W_gongjehapgye>>,
     mapping |-> mapping]

SalaryDefinitions == {
    SalaryDefinition([net_payment |-> Str(W_chainjigeubaek),
                      total_deduction |-> Str(W_gongjehapgye),
                      employee_name |-> Str(W_seongmyeong)]),
    SalaryDefinition([net_payment |-> Str(W_chainjigeubaek),
                      employee_name |-> Str(W_seongmyeong)]),
    SalaryDefinition([date |-> Nil]),
    SalaryDefinition([net_payment |-> List(<<W_chainjigeubaek>>),
                      total_deduction |-> Str(W_gongjehapgye),
                      employee_name |-> Str(W_seongmyeong)]) }

SalaryHeaders == {
    <<W_seongmyeong, W_chainjigeubaek, W_gongjehapgye>>,
    <<W_seongmyeong, <<"cha", "in", " ", "ji", "geup", "aek">>, W_gongjehapgye>>,
    <<W_seongmyeong, W_gongjehapgye>>,
    <<W_seongmyeong, W_chainjigeubaek>> }

NetCells == {IntNum(3000000), Nil, IntNum(0),
             Str(<<"3", ",", "0", "0", "0", ",", "0", "0", "0">>), IntNum(36)}
DeductionCells == {IntNum(400000), Nil, Str(<<"WON", "4", "0", "0", ",", "0", "0", "0">>),
                   IntNum(-12)}
MarkerCells == {Str(W_hapgye), Str(<<" ", "hap", " ", "gye", " ">>),
                Str(<<"chong", "hap", "gye", "(", "won", ")">>)}

\* the row of header h that holds the given cells under their columns
SalaryRow(h, first, net, ded) ==
    [k \in 1..Len(h) |-> IF k = 1 THEN first
                         ELSE IF Includes(StripWs(h[k]), W_chainjigeubaek) THEN net
                         ELSE ded]

EmployeeRows(h) == {SalaryRow(h, Str(<<"gim">>), IntNum(1000000), IntNum(100000)),
                    <<>>,
                    <<Str(<<"hap", "gyeok">>), Nil, Nil, Str(<<"so", "gye">>)>>}

TotalsRows(h) ==
    {SalaryRow(h, m, IntNum(3000000), IntNum(400000)) : m \in MarkerCells}
    \cup {SalaryRow(h, Str(W_hapgye), n, d) : n \in NetCells, d \in DeductionCells}
    \cup {<<IntNum(1), Nil, Nil, Nil, Str(W_hapgye)>>}

\* rows below the header row: employee rows, then no, one or two totals rows
SalaryBodies(h) ==
    {rows \o tot : rows \in SeqsUpTo(EmployeeRows(h), MaxEmployeeRows),
                   tot \in {<<>>} \cup {<<t>> : t \in TotalsRows(h)}
                           \cup {<<SalaryRow(h, Str(W_hapgye), IntNum(7), IntNum(8)),
                                   SalaryRow(h, Str(W_hapgye), IntNum(9), IntNum(10))>>}}

SourceInfo(def, above, h, body) ==
    [def |-> def, headerRow |-> h, headerIndex |-> Len(above), sheetName |-> "S1",
     jsonData |-> above \o <<[k \in 1..Len(h) |-> Str(h[k])]>> \o body]

SalaryInfos ==
    UNION {{SourceInfo(def, above, h, body) :
                def \in SalaryDefinitions,
                above \in {<<>>, <<<<Str(W_hapgye), IntNum(1), IntNum(2)>>>>},
                body \in SalaryBodies(h)} : h \in SalaryHeaders}

\* row-wise sources: the first layout with a few bodies
CardInfos ==
    {SourceInfo(SOURCE_DEFINITIONS[1],
                <<>>,
                <<W_iyongil, W_iyongsigan, W_iyonghasingot, W_iyonggeumaekwon, W_iyonggeumaek>>,
                body) :
        body \in {<<>>,
                  <<<<Str(D_20250115), T_1320, T_Starbucks, IntNum(12000), Nil>>>>,
                  <<<<Nil, Nil, T_jucha, IntNum(1), Nil>>,
                    <<IntNum(45672), Nil, T_seuta, Nil, T_won>>,
                    <<Str(D_2025_01_15), Nil, Nil, Nil, Nil>>>>}}

InitNormalize ==
    /\ definitions = SOURCE_DEFINITIONS
    /\ \E st \in PipelineSettings \ {<<DefaultEnv, Nil>>} : env = st[1] /\ rules = st[2]
    /\ file = [name |-> "pay.xls", workbook |-> Nil]
    /\ pc = "normalize"
    /\ sourceInfo \in SalaryInfos \cup CardInfos
    /\ promise = Pending
    /\ calls = <<"identifySource">>
    /\ arg = Nil
    /\ ret = Nil

\* normalizeSalarySummary's getColIdx raises on a mapped field that is not a string
SalaryMappingThrows(map) ==
    \E key \in {"net_payment", "total_deduction", "employee_name"} :
        SalaryGetColIdxThrows(MapEntry(map, key))

\* 2. Extract & Normalize
Normalize ==
    /\ pc = "normalize"
    /\ IF env.build = "processor.js" /\ sourceInfo.def.type = "salary_summary"
       THEN IF SalaryMappingThrows(sourceInfo.def.mapping)
            THEN /\ pc' = "threw"
                 /\ ret' = Nil
                 /\ promise' = Rejected("TypeError")
                 /\ calls' = Append(calls, "normalizeSalarySummary")
            ELSE /\ pc' = "normalized"
                 /\ ret' = normalizeSalarySummary(file.name, sourceInfo.jsonData, sourceInfo, env)
                 /\ calls' = Append(calls, "normalizeSalarySummary")
                 /\ UNCHANGED promise
       ELSE /\ pc' = "normalized"
            /\ ret' = normalizeData(file.name, sourceInfo.jsonData, sourceInfo, env)
            /\ calls' = Append(calls, "normalizeData")
            /\ UNCHANGED promise
    /\ UNCHANGED <<definitions, rules, env, file, sourceInfo, arg>>

\* 3. Classify, and resolve
Classify ==
    /\ pc = "normalized"
    /\ ret' = classifyData(ret, rules)
    /\ promise' = Fulfilled(ret')
    /\ calls' = Append(calls, "classifyData")
    /\ pc' = "settled"
    /\ UNCHANGED <<definitions, rules, env, file, sourceInfo, arg>>

NextNormalize == Normalize \/ Classify

SpecNormalize == InitNormalize /\ [][NextNormalize]_vars

-----------------------------------------------------------------------------
(* Claims about the normalizers' output, under SpecNormalize *)

\* the normalizer has returned and the classifier has not run yet
HandedOver == pc = "normalized"
FromSalarySummary == HandedOver /\ calls[2] = "normalizeSalarySummary"
FromNormalizeData == HandedOver /\ calls[2] = "normalizeData"

\* zero-based indexes of the rows after the header row with a text cell that
\* contains the totals marker once its whitespace is removed
MarkedRows ==
    {i \in (sourceInfo.headerIndex + 1)..(Len(sourceInfo.jsonData) - 1) :
        \E c \in 1..Len(RowAt(i)) :
            RowAt(i)[c].t = "str" /\ Includes(StripWs(RowAt(i)[c].s), W_hapgye)}

TotalsRow == RowAt(CHOOSE i \in MarkedRows : \A j \in MarkedRows : i <= j)

\* the totals row's cell under a mapped column, undefined when the field is
\* not mapped or its column is not in the header
TotalsCell(key) ==
    Cell(TotalsRow, SalaryGetColIdx(sourceInfo.headerRow,
                                    MapEntry(sourceInfo.def.mapping, key)))

TimesTwelve(x) == IF "over" \in DOMAIN x THEN Num(x.m, x.e) ELSE Num(x.m * 12, x.e)

FixedLabels == <<W_jigwoningeonbi, <<"jik", "won", "so", "deuk", "se">>,
                 <<"jik", "won", " ", "toe", "jik", "yeon", "geum">>>>

\* C14: normalizeSalarySummary returns no record exactly when no row after the
\* header has a cell containing the totals marker, else exactly three records
\* from the (first) totals row: net payment, total deduction, one twelfth of
\* their sum, with one date and the fixed categories; a missing totals row or
\* mapped column does not make it raise.
C14_ThreeRecordsFromTotalsRow ==
    /\ pc = "threw" =>
           \E key \in DOMAIN sourceInfo.def.mapping :
               sourceInfo.def.mapping[key].t = "list"
    /\ FromSalarySummary =>
           IF MarkedRows = {} THEN ret = <<>>
           ELSE /\ Len(ret) = 3
                /\ ret[1].amount = extractKRW(TotalsCell("net_payment"))
                /\ ret[2].amount = extractKRW(TotalsCell("total_deduction"))
                /\ TimesTwelve(ret[3].amount) = NumAdd(ret[1].amount, ret[2].amount)
                /\ \A k \in 1..3 :
                       /\ ret[k].date = Ymd(env.today)
                       /\ ret[k].category_main = W_jigwoningeonbi
                       /\ ret[k].category_mso = W_MSO
                       /\ ret[k].category_detail = <<>>
                       /\ ret[k].item = FixedLabels[k]

\* the deduction column is not in the header; the marker sits inside a longer cell
C14_Witness ==
    /\ FromSalarySummary
    /\ SalaryGetColIdx(sourceInfo.headerRow,
                       MapEntry(sourceInfo.def.mapping, "total_deduction")) = -1
    /\ MarkedRows # {}
    /\ TotalsRow[1] = Str(<<"chong", "hap", "gye", "(", "won", ")">>)
    /\ Len(ret) = 3
    /\ ret[1].amount = IntNum(3000000)
    /\ ret[2].amount = IntNum(0)
    /\ ret[3].amount = IntNum(250000)

\* C16 as claimed: every record handed to the classifier, from either
\* normalizer, has item, category_detail, category_main and category_mso empty.
C16_ClassificationFieldsBlank ==
    HandedOver => \A k \in 1..Len(ret) : \A f \in ClassFields : ret[k][f] = <<>>

HandedOverAsDocumented ==
    /\ FromNormalizeData =>
           \A k \in 1..Len(ret) : \A f \in ClassFields : ret[k][f] = <<>>
    /\ FromSalarySummary =>
           \A k \in 1..Len(ret) :
               /\ ret[k].category_detail = <<>>
               /\ ret[k].item = FixedLabels[k]
               /\ ret[k].category_main = W_jigwoningeonbi
               /\ ret[k].category_mso = W_MSO

\* some record of normalizeData has a classification field set
FieldSet(at, stages, records) ==
    /\ at \in {"normalized", "settled"}
    /\ stages[2] = "normalizeData"
    /\ \E k \in 1..Len(records) : \E f \in ClassFields : records[k][f] # <<>>

\* C16: every record normalizeData hands to the classifier has item,
\* category_detail, category_main and category_mso empty, and they become
\* non-empty only in the classifyData step; the three records of
\* normalizeSalarySummary have category_detail empty and carry their fixed
\* item, category_main and category_mso.
C16_BlankUnlessSalarySummary ==
    /\ []HandedOverAsDocumented
    /\ [][FieldSet(pc', calls', ret')
              => (pc = "normalized" /\ calls' = Append(calls, "classifyData"))]_vars

C16_Witness ==
    /\ FromSalarySummary
    /\ Len(ret) = 3
    /\ ret[2].item = <<"jik", "won", "so", "deuk", "se">>
    /\ ret[2].category_detail = <<>>
    /\ ret[2].amount = IntNum(400000)

-----------------------------------------------------------------------------
(* Further claims about processFile, under Spec *)

\* C15: through processFile with the repository's catalog, the payroll file
\* whose totals row holds net payment 3000000 and total deduction 400000
\* yields exactly 3 records, of amounts 3000000, 400000 and their sum / 12.
C15_PayrollYieldsThreeRecords ==
    (Identified /\ file = PayrollFile) =>
        /\ promise.state = "fulfilled"
        /\ Len(promise.value) = 3
        /\ \A k \in 1..3 : "amount" \in DOMAIN promise.value[k]
        /\ promise.value[1].amount = IntNum(3000000)
        /\ promise.value[2].amount = IntNum(400000)
        /\ TimesTwelve(promise.value[3].amount) = IntNum(3400000)

\* C19: whenever identifySource succeeds with definition D and header row H,
\* normalizeData's Field Mapper resolves D's date field to a column of H.
C19_DateColumnResolved ==
    (Identified /\ sourceInfo.def # Nil) => DateColumn # -1

-----------------------------------------------------------------------------
(* processor.js: Processor.preprocessHtmlIfNeeded *)

(* The file's bytes are a sequence of tokens: an ASCII byte is its character, *)
(* "xFF" is a byte that is not valid UTF-8, and "xEF" "xBB" "xBF" /           *)
(* "xEF" "xBF" "xBD" are the encodings of U+FEFF and U+FFFD.                  *)

DETECT_BYTES == 500

T_BOM == <<"xEF", "xBB", "xBF">>
T_REPLACEMENT == <<"xEF", "xBF", "xBD">>

\* least element of a set of positions, 0 when it is empty
Least(S) ==
    CHOOSE m \in {IF T = {} THEN 0 ELSE CHOOSE i \in T : \A j \in T : i <= j : T \in {S}} : TRUE

\* bytes that are not ASCII
HighBytes == {"xFF", "xEF", "xBB", "xBF", "xBD"}

RECURSIVE DecodeFrom(_, _)
\* the text of the bytes from position i on; runs of ASCII are taken whole
DecodeFrom(data, i) ==
    LET h == Least({j \in i..Len(data) : data[j] \in HighBytes})
    IN  IF h = 0 THEN SubSeq(data, i, Len(data))
        ELSE SubSeq(data, i, h - 1) \o
             (IF h + 2 <= Len(data) /\ SubSeq(data, h, h + 2) = T_REPLACEMENT
              THEN <<"U+FFFD">> \o DecodeFrom(data, h + 3)
              ELSE IF h + 2 <= Len(data) /\ SubSeq(data, h, h + 2) = T_BOM
              THEN <<"U+FEFF">> \o DecodeFrom(data, h + 3)
              ELSE <<"U+FFFD">> \o DecodeFrom(data, h + 1))

\* new TextDecoder('utf-8').decode(data): a leading byte order mark is dropped
Decode(data) ==
    IF Len(data) >= 3 /\ SubSeq(data, 1, 3) = T_BOM THEN DecodeFrom(data, 4)
    ELSE DecodeFrom(data, 1)

RECURSIVE EncodeFrom(_, _)
EncodeFrom(text, i) ==
    LET h == Least({j \in i..Len(text) : text[j] \in {"U+FFFD", "U+FEFF"}})
    IN  IF h = 0 THEN SubSeq(text, i, Len(text))
        ELSE SubSeq(text, i, h - 1)
             \o (IF text[h] = "U+FFFD" THEN T_REPLACEMENT ELSE T_BOM)
             \o EncodeFrom(text, h + 1)

\* new TextEncoder().encode(fullText)
Encode(text) == EncodeFrom(text, 1)

L_html == <<"<", "h", "t", "m", "l">>
L_table == <<"<", "t", "a", "b", "l", "e">>
L_td == <<"<", "t", "d">>
L_tdClose == <<"<", "/", "t", "d", ">">>
L_trClose == <<"<", "/", "t", "r", ">">>

\* textDecoder.decode(data.slice(0, 500))
DetectText(data) == Decode(SubSeq(data, 1, Min(DETECT_BYTES, Len(data))))

\* text.includes('<html') || text.includes('<table')
LooksLikeHtml(text) == Includes(text, L_html) \/ Includes(text, L_table)

\* the literal (lower case) stands at position i, letter case ignored (flag i)
IsLitAt(text, i, lit) ==
    /\ i + Len(lit) - 1 <= Len(text)
    /\ ToLowerCase(SubSeq(text, i, i + Len(lit) - 1)) = lit

\* (<td[^>]*>) from position s: the position of its closing '>', 0 if none
TdOpenEnd(text, s) ==
    IF text[s] = "<" /\ IsLitAt(text, s, L_td)
    THEN Least({j \in (s + 3)..Len(text) : text[j] = ">"})
    ELSE 0

\* ([^<]*?)(literal) from position from: the position of the literal, which
\* has to be at the first '<', 0 if it is not
LiteralAfter(text, from, lit) ==
    Least({k \in {Least({i \in from..Len(text) : text[i] = "<"})} \ {0} :
               IsLitAt(text, k, lit)})

\* the pattern (<td[^>]*>)([^<]*?)(lit) matches from s: position of lit, else 0
MatchFrom(text, s, lit) ==
    Least({LiteralAfter(text, j + 1, lit) : j \in {TdOpenEnd(text, s)} \ {0}})

\* the leftmost match from position p on: the position of its literal, else 0
NextMatch(text, p, lit) ==
    Least({MatchFrom(text, s, lit) :
               s \in {Least({i \in p..Len(text) :
                                 text[i] = "<" /\ MatchFrom(text, i, lit) # 0})} \ {0}})

RECURSIVE ReplaceAll(_, _, _)
\* text.replace(/(<td[^>]*>)([^<]*?)(lit)/gi, '$1$2</td>$3') from position p on:
\* leftmost match first, the search resumes behind the match
ReplaceAll(text, p, lit) ==
    CHOOSE r \in
        { IF k = 0 THEN SubSeq(text, p, Len(text))
          ELSE SubSeq(text, p, k - 1) \o L_tdClose \o SubSeq(text, k, k + Len(lit) - 1)
               \o ReplaceAll(text, k + Len(lit), lit)
          : k \in {NextMatch(text, p, lit)} } : TRUE

\* one pass of the while loop
CloseCellsPass(text) == ReplaceAll(text, 1, L_td)

\* Fix last td in each row
CloseLastCells(text) == ReplaceAll(text, 1, L_trClose)

-----------------------------------------------------------------------------
(* Specification SpecHtml: preprocessHtmlIfNeeded, pass by pass, applied to   *)
(* a file's bytes and then to its own output                                  *)

MaxPieces == 3

\* passes explored per application
PassCap == MaxPieces + 3

Pad(n) == [i \in 1..n |-> " "]

HtmlPieces ==
    { <<"<", "t", "d", ">">>,
      <<"<", "T", "D", " ", "a", ">">>,
      <<"<", "t", "d">>,
      <<"x">>,
      L_tdClose,
      L_trClose }

\* the marker ends at byte 500 and two open cells stand before it
LateMarker ==
    <<"<", "t", "d", ">", "a", "<", "t", "d", ">">> \o Pad(DETECT_BYTES - 15) \o L_table

HtmlPrefixes ==
    { <<>>,
      L_table \o <<">">>,
      T_BOM \o L_table \o <<">">>,
      T_BOM \o T_BOM \o L_html \o <<">">>,
      <<"xFF">> \o L_table \o <<">">>,
      LateMarker \o <<">">> }

HtmlInputs == {pre \o Concat(ps) : pre \in HtmlPrefixes, ps \in SeqsUpTo(HtmlPieces, MaxPieces)}

InitHtml ==
    /\ definitions = SOURCE_DEFINITIONS
    /\ rules = Nil
    /\ env = DefaultEnv
    /\ file = Nil
    /\ pc = "detect"
    /\ sourceInfo = Nil
    /\ promise = Nil
    /\ calls = <<>>
    /\ arg \in HtmlInputs
    /\ ret = [round |-> 1, data |-> arg, fullText |-> <<>>, prevLength |-> 0,
              passes |-> 0, out |-> <<>>, first |-> <<>>]

\* lines 69-78: not HTML, the data is returned as it came; else decode all of it
Detect ==
    /\ pc = "detect"
    /\ \E text \in {DetectText(arg)} :
           IF LooksLikeHtml(text)
           THEN /\ \E fullText \in {Decode(arg)} :
                       ret' = [ret EXCEPT !.fullText = fullText, !.prevLength = 0,
                                          !.passes = 0]
                /\ pc' = "loop"
           ELSE /\ ret' = [ret EXCEPT !.out = arg]
                /\ pc' = "returned"
    /\ UNCHANGED <<definitions, rules, env, file, sourceInfo, promise, calls, arg>>

\* lines 82-86: one iteration of the while loop
Pass ==
    /\ pc = "loop"
    /\ Len(ret.fullText) # ret.prevLength
    /\ ret.passes < PassCap
    /\ \E fullText \in {CloseCellsPass(ret.fullText)} :
           ret' = [ret EXCEPT !.prevLength = Len(ret.fullText),
                              !.fullText = fullText,
                              !.passes = ret.passes + 1]
    /\ UNCHANGED <<definitions, rules, env, file, pc, sourceInfo, promise, calls, arg>>

\* lines 88-93: the loop is left, last cells of rows are closed, text encoded
Finish ==
    /\ pc = "loop"
    /\ Len(ret.fullText) = ret.prevLength
    /\ \E fullText \in {CloseLastCells(ret.fullText)} :
           \E encoded \in {Encode(fullText)} : ret' = [ret EXCEPT !.out = encoded]
    /\ pc' = "returned"
    /\ UNCHANGED <<definitions, rules, env, file, sourceInfo, promise, calls, arg>>

\* the filter is applied to its own output
Reapply ==
    /\ pc = "returned"
    /\ ret.round = 1
    /\ arg' = ret.out
    /\ ret' = [ret EXCEPT !.round = 2, !.first = ret.out]
    /\ pc' = "detect"
    /\ UNCHANGED <<definitions, rules, env, file, sourceInfo, promise, calls>>

NextHtml == Detect \/ Pass \/ Finish \/ Reapply

\* a started call runs on until it returns
SpecHtml == InitHtml /\ [][NextHtml]_vars /\ WF_vars(NextHtml)

-----------------------------------------------------------------------------
(* Claims about preprocessHtmlIfNeeded, under SpecHtml *)

ReturnedTwice == pc = "returned" /\ ret.round = 2

\* the loop is left with a text that a further pass leaves unchanged
LoopEndsAtFixpoint ==
    (pc = "loop" /\ Len(ret.fullText) = ret.prevLength)
        => CloseCellsPass(ret.fullText) = ret.fullText

\* both applications of the filter return
HtmlTerminates == <>ReturnedTwice

\* the second application returns its input, the first one's output
Idempotent == ReturnedTwice => ret.out = ret.first

\* C17: preprocessHtmlIfNeeded returns on every input, its loop ends at a text
\* that one more pass leaves unchanged, and applied to its own output it
\* returns that output unchanged
C17_TerminatesAndIdempotent ==
    /\ HtmlTerminates
    /\ []LoopEndsAtFixpoint
    /\ []Idempotent

\* the same, for data whose text does not begin with U+FEFF after the byte
\* order mark is dropped
NoSecondMark == Len(ret.data) < 6 \/ SubSeq(ret.data, 1, 6) # T_BOM \o T_BOM
IdempotentWithoutSecondMark == [](NoSecondMark => Idempotent)

-----------------------------------------------------------------------------
(* Specification SpecConcurrent: two processFile calls in flight.  A handler  *)
(* runs to completion; the handlers of the two calls run in either order.     *)
(* file, pc, sourceInfo, promise and calls hold one entry per call; ret is    *)
(* the heap of result arrays, an array's address is its index; a fulfilled    *)
(* promise holds the address of the array it was resolved with.               *)

Calls == {1, 2}

\* mutant: results is one array at module level, every call pushes to it
NewResults_ModuleLevel(heap) ==
    Least({a \in 1..Len(heap) : \A k \in 1..Len(heap[a]) : "error" \notin DOMAIN heap[a][k]}
          \cup {Len(heap) + 1})

\* const results = []
NewResults(heap) == Len(heap) + 1

\* results.push(...) for each record, in order
PushAll(heap, a, records) ==
    IF a > Len(heap) THEN Append(heap, records) ELSE [heap EXCEPT ![a] = @ \o records]

\* classifyData(data): the entries of data are updated in place
ClassifyInPlace(heap, a, rls) == [heap EXCEPT ![a] = classifyData(@, rls)]

\* this.normalizeSalarySummary(...) or this.normalizeData(...)
NormalizedRecords(f, info, e) ==
    IF e.build = "processor.js" /\ info.def.type = "salary_summary"
    THEN normalizeSalarySummary(f.name, info.jsonData, info, e)
    ELSE normalizeData(f.name, info.jsonData, info, e)

\* the load handler from `if (!sourceInfo.def)` on, on the heap; a is the
\* address of the normalizer's results array
ResolveOnHeap(heap, a, f, info, rls, e) ==
    IF info.def = Nil
    THEN [heap |-> Append(heap, AfterIdentify(f, info, rls, e).promise.value),
          sourceInfo |-> info,
          calls |-> <<"identifySource">>,
          promise |-> Fulfilled(Len(heap) + 1)]
    ELSE [heap |-> ClassifyInPlace(PushAll(heap, a, NormalizedRecords(f, info, e)), a, rls),
          sourceInfo |-> info,
          calls |-> AfterIdentify(f, info, rls, e).calls,
          promise |-> Fulfilled(a)]

\* reader.onload, on the heap
HandlerOnHeap(heap, f, defs, rls, e) ==
    IF f.workbook = Nil
    THEN [heap |-> heap, sourceInfo |-> Nil, calls |-> <<>>, promise |-> Rejected("XLSX.read")]
    ELSE ResolveOnHeap(heap, NewResults(heap), f,
                       identifySource(defs, f.name, f.workbook), rls, e)

ConcurrentSheets ==
    {<<layout.header,
       DataRow(layout, Cells(IntNum(45672), T_1320, T_Starbucks, IntNum(12000), Nil)),
       DataRow(layout, Cells(IntNum(45673), Nil, IntNum(7), Nil, IntNum(450)))>> :
         layout \in Layouts}

\* files of Spec: the payroll summary, an unreadable file, a workbook without
\* sheets, a sheet no definition matches, and one sheet of two rows per layout
ConcurrentFiles ==
    PipelineFiles \cap
        ({PayrollFile,
          [name |-> "a.xls", workbook |-> Nil],
          [name |-> "a.xls", workbook |-> Workbook(<<>>, <<>>)],
          [name |-> "b.xls", workbook |-> Workbook(<<"S1">>, <<<<<<Str(W_memo), IntNum(0)>>>>>>)]}
         \cup {[name |-> "b.xls", workbook |-> Workbook(<<"S1">>, <<sh>>)] :
                   sh \in ConcurrentSheets})

InitConcurrent ==
    /\ definitions = SOURCE_DEFINITIONS
    /\ \E st \in PipelineSettings : env = st[1] /\ rules = st[2]
    /\ file \in {fs \in ConcurrentFiles \X ConcurrentFiles : fs[1] # fs[2]}
    /\ pc = <<"idle", "idle">>
    /\ sourceInfo = <<Nil, Nil>>
    /\ promise = <<Nil, Nil>>
    /\ calls = <<<<>>, <<>>>>
    /\ arg = Nil
    /\ ret = <<>>

\* processFile(file[i])
ProcessFileOf(i) ==
    /\ pc[i] = "idle"
    /\ promise' = [promise EXCEPT ![i] = Pending]
    /\ pc' = [pc EXCEPT ![i] = "reading"]
    /\ UNCHANGED <<definitions, rules, env, file, sourceInfo, calls, arg, ret>>

\* reader.onload of call i
OnLoadOf(i) ==
    /\ pc[i] = "reading"
    /\ \E out \in {HandlerOnHeap(ret, file[i], definitions, rules, env)} :
           /\ ret' = out.heap
           /\ sourceInfo' = [sourceInfo EXCEPT ![i] = out.sourceInfo]
           /\ calls' = [calls EXCEPT ![i] = out.calls]
           /\ promise' = [promise EXCEPT ![i] = out.promise]
    /\ pc' = [pc EXCEPT ![i] = "settled"]
    /\ UNCHANGED <<definitions, rules, env, file, arg>>

\* reader.onerror of call i
OnErrorOf(i) ==
    /\ pc[i] = "reading"
    /\ promise' = [promise EXCEPT ![i] = Rejected("FileReader")]
    /\ pc' = [pc EXCEPT ![i] = "settled"]
    /\ UNCHANGED <<definitions, rules, env, file, sourceInfo, calls, arg, ret>>

NextConcurrent == \E i \in Calls : ProcessFileOf(i) \/ OnLoadOf(i) \/ OnErrorOf(i)

SpecConcurrent == InitConcurrent /\ [][NextConcurrent]_vars

-----------------------------------------------------------------------------
(* Claims about concurrent processFile calls, under SpecConcurrent *)

\* call i resolved its promise with an array
ResolvedWithArray(i) == pc[i] = "settled" /\ promise[i].state = "fulfilled"

\* what call i's promise holds when the call runs alone
Alone(i) == LoadHandler(file[i], SOURCE_DEFINITIONS, rules, env).promise

\* call i settled as it does alone: the same rejection, or an array of the
\* same records
SettledAsAlone(i) ==
    IF promise[i].state = "fulfilled"
    THEN Alone(i).state = "fulfilled" /\ ret[promise[i].value] = Alone(i).value
    ELSE promise[i] \in {Alone(i), Rejected("FileReader")}

\* a step leaves the array of a resolved call as it is
ArrayKept(i) ==
    ResolvedWithArray(i) =>
        /\ promise'[i] = promise[i]
        /\ ret'[promise[i].value] = ret[promise[i].value]

\* C18: in every interleaving of the handlers of two processFile calls on
\* different files, each call settles with the records it produces when run
\* alone, no step changes the definition catalog or the rule catalog, and no
\* step adds a record to, or changes a record of, the array another call was
\* resolved with.
C18_CallsDoNotInterfere ==
    /\ [](\A i \in Calls : pc[i] = "settled" => SettledAsAlone(i))
    /\ [][definitions' = definitions /\ rules' = rules]_vars
    /\ [][\A i \in Calls : ArrayKept(i)]_vars

\* both calls resolved with records, the handler of the second call ran first
C18_Witness ==
    /\ ResolvedWithArray(1) /\ ResolvedWithArray(2)
    /\ promise[2].value = 1 /\ promise[1].value = 2
    /\ Len(calls[1]) = 3 /\ Len(calls[2]) = 3
    /\ ret[1] # <<>> /\ ret[2] # <<>>
    /\ ret[1] # ret[2]
    /\ \E k \in 1..Len(ret[2]) : ret[2][k].item # <<>>

====
